---- MODULE Spec2Model ----
(***************************************************************************)
(* Model of the collector schema manager                                   *)
(* (modules/collectorschema/component_schema.go): the embedded schema      *)
(* store, the schema cache of SchemaManager and the operations that go     *)
(* through GetComponentSchema.                                             *)
(*                                                                         *)
(* Go strings are modelled as sequences of one-character strings, so that  *)
(* fmt.Sprintf concatenation, strings.HasPrefix / HasSuffix / TrimSuffix   *)
(* and string equality are computed as the code computes them.             *)
(***************************************************************************)
EXTENDS Integers, Sequences, FiniteSets, TLC

----------------------------------------------------------------------------
(* Strings                                                                 *)

S_us == <<"_">>
S_slash == <<"/">>
S_schemas == <<"s","c","h","e","m","a","s">>
S_yaml == <<".","y","a","m","l">>
S_md == <<".","m","d">>
S_changelog == <<"c","h","a","n","g","e","l","o","g">>

S_otlp == <<"o","t","l","p">>
S_debug == <<"d","e","b","u","g">>
S_tail == <<"t","a","i","l">>
S_sampling == <<"s","a","m","p","l","i","n","g">>
S_tail_sampling == S_tail \o S_us \o S_sampling
S_nonexistent == <<"n","o","n","e","x","i","s","t","e","n","t">>
S_invalid == <<"i","n","v","a","l","i","d">>

V_0_9_0 == <<"0",".","9",".","0">>
V_0_10_0 == <<"0",".","1","0",".","0">>
V_9_9_9 == <<"9",".","9",".","9">>
V_1_0 == <<"1",".","0">>
S_latest == <<"l","a","t","e","s","t">>
S_notes == <<"n","o","t","e","s">>
S_old == <<"o","l","d">>
S_notes_md == <<"n","o","t","e","s",".","m","d">>

\* const block of ComponentType values
ComponentTypeReceiver == <<"r","e","c","e","i","v","e","r">>
ComponentTypeProcessor == <<"p","r","o","c","e","s","s","o","r">>
ComponentTypeExporter == <<"e","x","p","o","r","t","e","r">>
ComponentTypeExtension == <<"e","x","t","e","n","s","i","o","n">>
ComponentTypeConnector == <<"c","o","n","n","e","c","t","o","r">>

\* byte order of the characters that occur in the model (ASCII order)
Alphabet == <<".", "/", "0", "1", "2", "3", "4", "5", "6", "7", "8", "9", "_",
              "a", "b", "c", "d", "e", "f", "g", "h", "i", "j", "k", "l", "m",
              "n", "o", "p", "q", "r", "s", "t", "u", "v", "w", "x", "y", "z">>

Ord(c) == CHOOSE i \in 1..Len(Alphabet) : Alphabet[i] = c

\* Go's < on strings: bytewise lexicographic order
RECURSIVE StrLess(_, _)
StrLess(a, b) ==
  IF Len(b) = 0 THEN FALSE
  ELSE IF Len(a) = 0 THEN TRUE
  ELSE IF Head(a) = Head(b) THEN StrLess(Tail(a), Tail(b))
  ELSE Ord(Head(a)) < Ord(Head(b))

\* strings.HasPrefix
HasPrefix(s, p) == Len(s) >= Len(p) /\ SubSeq(s, 1, Len(p)) = p

\* strings.HasSuffix
HasSuffix(s, p) == Len(s) >= Len(p) /\ SubSeq(s, Len(s) - Len(p) + 1, Len(s)) = p

\* strings.TrimPrefix
TrimPrefix(s, p) == IF HasPrefix(s, p) THEN SubSeq(s, Len(p) + 1, Len(s)) ELSE s

\* strings.TrimSuffix
TrimSuffix(s, p) == IF HasSuffix(s, p) THEN SubSeq(s, 1, Len(s) - Len(p)) ELSE s

\* strings.Contains for a one-character needle
ContainsChar(s, c) == \E i \in 1..Len(s) : s[i] = c

\* the elements of a set of strings as a sequence in increasing string order
RECURSIVE SortStrings(_)
SortStrings(S) ==
  IF S = {} THEN <<>>
  ELSE LET m == CHOOSE x \in S : \A y \in S \ {x} : StrLess(x, y)
       IN <<m>> \o SortStrings(S \ {m})

----------------------------------------------------------------------------
(* Schema documents (the parsed map[string]interface{} of a schema file)   *)

OtlpDoc ==
  [type |-> "object",
   properties |->
     [protocols |->
        [type |-> "object",
         properties |->
           [grpc |-> [type |-> "object", deprecated |-> TRUE,
                      description |-> "old",
                      properties |->
                        [tls |-> [type |-> "string", deprecated |-> TRUE]]],
            http |-> [deprecated |-> TRUE],
            unix |-> [type |-> "object", deprecated |-> FALSE]]]]]

OtlpDocNew ==
  [type |-> "object",
   required |-> {"protocols"},
   properties |->
     [protocols |->
        [type |-> "object",
         properties |-> [grpc |-> [type |-> "object"]]],
      headers |->
        [type |-> "object",
         additionalProperties |-> [type |-> "string"]]]]

TailSamplingDoc ==
  [type |-> "object",
   properties |->
     [decision_wait |-> [type |-> "string", deprecated |-> FALSE,
                         description |-> "wait"],
      num_traces |-> [type |-> "integer", deprecated |-> TRUE,
                      description |-> "old"],
      policies |-> [type |-> "array",
                    items |->
                      [type |-> "object",
                       properties |->
                         [name |-> [type |-> "string", deprecated |-> TRUE,
                                    description |-> "element"]]]],
      legacy |-> [type |-> "string",
                  properties |->
                    [mode |-> [type |-> "boolean", deprecated |-> TRUE]]]]]

DebugDoc ==
  [type |-> "object",
   properties |-> [verbosity |-> [type |-> "string"]]]

\* file contents: the YAML text of a mapping, or plain text
YamlMapping(doc) == [format |-> "yaml-mapping", doc |-> doc]
PlainText(tag) == [format |-> "text", doc |-> [text |-> tag]]

----------------------------------------------------------------------------
(* The embedded file system                                                *)

Path(dir, name) == dir \o S_slash \o name

VersionDir(version) == S_schemas \o S_slash \o version

Dir_0_9_0 == VersionDir(V_0_9_0)
Dir_0_10_0 == VersionDir(V_0_10_0)

\* //go:embed schemas : files of the embedded tree, path -> contents
embeddedSchemas ==
  ( Path(Dir_0_9_0, ComponentTypeReceiver \o S_us \o S_otlp \o S_yaml)
      :> YamlMapping(OtlpDoc) )
  @@ ( Path(Dir_0_9_0, ComponentTypeReceiver \o S_us \o S_otlp \o S_md)
      :> PlainText("readme") )
  @@ ( Path(Dir_0_9_0, ComponentTypeProcessor \o S_us \o S_tail_sampling \o S_yaml)
      :> YamlMapping(TailSamplingDoc) )
  @@ ( Path(Dir_0_9_0, S_changelog \o S_md) :> PlainText("changelog") )
  @@ ( Path(Dir_0_10_0, ComponentTypeReceiver \o S_us \o S_otlp \o S_yaml)
      :> YamlMapping(OtlpDocNew) )
  @@ ( Path(Dir_0_10_0, ComponentTypeExporter \o S_us \o S_debug \o S_yaml)
      :> YamlMapping(DebugDoc) )
  @@ ( Path(Dir_0_10_0, S_changelog \o S_md) :> PlainText("changelog") )
  @@ ( Path(Dir_0_10_0, S_invalid \o S_us \o S_otlp \o S_yaml)
      :> YamlMapping(DebugDoc) )
  @@ ( Path(Dir_0_10_0, S_notes \o S_yaml) :> PlainText("notes") )
  @@ ( Path(Dir_0_10_0, ComponentTypeReceiver \o S_us \o S_yaml)
      :> YamlMapping(DebugDoc) )

\* directories of the embedded tree
Dir_exporter_old ==
  Path(Dir_0_10_0, ComponentTypeExporter \o S_us \o S_old \o S_yaml)

embeddedDirs == {S_schemas, Dir_0_9_0, Dir_0_10_0, Dir_exporter_old}

\* fs.ReadFile(embeddedSchemas, path)
ReadFile(path) ==
  IF path \in DOMAIN embeddedSchemas
  THEN [err |-> FALSE, data |-> embeddedSchemas[path]]
  ELSE [err |-> TRUE, data |-> PlainText("")]

\* the entry names directly below directory dir
EntryNames(dir) ==
  { SubSeq(p, Len(dir) + 2, Len(p)) :
      p \in { q \in (DOMAIN embeddedSchemas) \cup embeddedDirs :
                /\ HasPrefix(q, dir \o S_slash)
                /\ ~ContainsChar(SubSeq(q, Len(dir) + 2, Len(q)), "/") } }

\* the listing of each directory: its entries sorted by file name
DirEntries ==
  [dir \in embeddedDirs |->
     LET sorted == SortStrings(EntryNames(dir))
     IN [i \in 1..Len(sorted) |->
           [Name |-> sorted[i], IsDir |-> Path(dir, sorted[i]) \in embeddedDirs]]]

\* fs.ReadDir(embeddedSchemas, dir)
ReadDir(dir) ==
  IF dir \in embeddedDirs
  THEN [err |-> FALSE, entries |-> DirEntries[dir]]
  ELSE [err |-> TRUE, entries |-> <<>>]

----------------------------------------------------------------------------
(* Values of the manager                                                   *)

\* the nil *ComponentSchema
NilSchema ==
  [ptr |-> 0, Name |-> <<>>, Type |-> <<>>, Version |-> <<>>,
   Schema |-> [type |-> "nil"]]

\* struct ComponentSchema behind a pointer; ptr is the address of the object
ComponentSchema(ptr, name, ctype, version, schema) ==
  [ptr |-> ptr, Name |-> name, Type |-> ctype, Version |-> version,
   Schema |-> schema]

\* error values: the chain of fmt.Errorf frames, outermost first; <<>> is nil
NoError == <<>>
Errorf(fmt, args) == << [fmt |-> fmt, args |-> args] >>
Wrap(fmt, args, inner) == << [fmt |-> fmt, args |-> args] >> \o inner

\* the empty map made by NewSchemaManager
EmptyCache == [k \in {} |-> NilSchema]

\* filepath.Join(dir, name) for path elements without "/", "." or ".."
filepathJoin(dir, name) == dir \o S_slash \o name

\* yaml.Unmarshal(data, &schemaData) into a map[string]interface{}
yamlUnmarshalMap(data) ==
  IF data.format = "yaml-mapping"
  THEN [err |-> FALSE, value |-> data.doc]
  ELSE [err |-> TRUE, value |-> [type |-> "nil"]]

isValidComponentType(componentType) ==
  componentType \in {ComponentTypeReceiver, ComponentTypeProcessor,
                     ComponentTypeExporter, ComponentTypeExtension,
                     ComponentTypeConnector}

\* cacheKey := fmt.Sprintf("%s_%s_%s", componentType, componentName, version)
CacheKey(componentType, componentName, version) ==
  componentType \o S_us \o componentName \o S_us \o version

\* filename := fmt.Sprintf("%s_%s.yaml", componentType, componentName)
SchemaFilename(componentType, componentName) ==
  componentType \o S_us \o componentName \o S_yaml

SchemaFilepath(componentType, componentName, version) ==
  filepathJoin(VersionDir(version), SchemaFilename(componentType, componentName))

\* loadSchemaFromFile: one fs.ReadFile, then the YAML parse; ptr is the address
\* the new ComponentSchema gets
loadSchemaFromFile(componentType, componentName, version, ptr) ==
  LET file == ReadFile(SchemaFilepath(componentType, componentName, version))
      parsed == yamlUnmarshalMap(file.data)
  IN IF file.err
     THEN [schema |-> NilSchema,
           err |-> Errorf("schema not found for component %s %s",
                          <<componentType, componentName>>)]
     ELSE IF parsed.err
     THEN [schema |-> NilSchema,
           err |-> Errorf("failed to parse schema YAML for %s %s: %w",
                          <<componentType, componentName>>)]
     ELSE [schema |-> ComponentSchema(ptr, componentName, componentType,
                                      version, parsed.value),
           err |-> NoError]

\* GetComponentSchema without the store of line 233
GetComponentSchema_NoStore(c, componentType, componentName, version, ptr) ==
  LET cacheKey == CacheKey(componentType, componentName, version)
      loaded == loadSchemaFromFile(componentType, componentName, version, ptr)
  IN IF cacheKey \in DOMAIN c
     THEN [cache |-> c, schema |-> c[cacheKey], err |-> NoError, reads |-> 0]
     ELSE [cache |-> c, schema |-> loaded.schema, err |-> loaded.err, reads |-> 1]

\* GetComponentSchema with the store of line 233 moved before the error return
GetComponentSchema_StoreFirst(c, componentType, componentName, version, ptr) ==
  LET cacheKey == CacheKey(componentType, componentName, version)
      loaded == loadSchemaFromFile(componentType, componentName, version, ptr)
  IN IF cacheKey \in DOMAIN c
     THEN [cache |-> c, schema |-> c[cacheKey], err |-> NoError, reads |-> 0]
     ELSE [cache |-> [k \in DOMAIN c \cup {cacheKey} |->
                        IF k = cacheKey THEN loaded.schema ELSE c[k]],
           schema |-> loaded.schema, err |-> loaded.err, reads |-> 1]

\* GetComponentSchema without the cache check of lines 222-224
GetComponentSchema_Reload(c, componentType, componentName, version, ptr) ==
  LET cacheKey == CacheKey(componentType, componentName, version)
      loaded == loadSchemaFromFile(componentType, componentName, version, ptr)
  IN IF loaded.err # NoError
     THEN [cache |-> c, schema |-> NilSchema, err |-> loaded.err, reads |-> 1]
     ELSE [cache |-> [k \in DOMAIN c \cup {cacheKey} |->
                        IF k = cacheKey THEN loaded.schema ELSE c[k]],
           schema |-> loaded.schema, err |-> NoError, reads |-> 1]

\* GetComponentSchema on cache map c: the map after the call, the returned
\* pointer and error, and the number of store reads the call made
GetComponentSchema(c, componentType, componentName, version, ptr) ==
  LET cacheKey == CacheKey(componentType, componentName, version)
      loaded == loadSchemaFromFile(componentType, componentName, version, ptr)
  IN IF cacheKey \in DOMAIN c
     THEN [cache |-> c, schema |-> c[cacheKey], err |-> NoError, reads |-> 0]
     ELSE IF loaded.err # NoError
     THEN [cache |-> c, schema |-> NilSchema, err |-> loaded.err, reads |-> 1]
     ELSE [cache |-> [k \in DOMAIN c \cup {cacheKey} |->
                        IF k = cacheKey THEN loaded.schema ELSE c[k]],
           schema |-> loaded.schema, err |-> NoError, reads |-> 1]

----------------------------------------------------------------------------
(* Operations built on GetComponentSchema                                  *)

\* json.MarshalIndent(schema.Schema, "", "  ")
MarshalIndent(doc) == [encoding |-> "json", indent |-> "  ", value |-> doc]
NoBytes == [encoding |-> "none", indent |-> "", value |-> [type |-> "nil"]]

\* JSON text: well-formed text of a value, or text the decoder rejects.  A
\* number literal keeps its value in tenths and whether it is written with a
\* fraction part ("1.0" and "1" are two texts of one value).
JsonText(value) == [wellFormed |-> TRUE, value |-> value]
MalformedJson == [wellFormed |-> FALSE, value |-> [kind |-> "null"]]
JObject(fields) == [kind |-> "object", fields |-> fields]
JString == [kind |-> "string"]
JNumber(tenths, frac) == [kind |-> "number", tenths |-> tenths, frac |-> frac]

\* configurations a caller can mean, whatever the encoding: mappings with
\* string keys, strings, integers and decimal numbers (in tenths)
CMap(fields) == [kind |-> "map", fields |-> fields]
CStr == [kind |-> "str"]
CInt(n) == [kind |-> "int", n |-> n]
CFloat(tenths) == [kind |-> "float", tenths |-> tenths]

\* the JSON text of a configuration: an integer is written as digits, a
\* decimal number with its fraction part
RECURSIVE JsonValueOf(_)
JsonValueOf(cfg) ==
  CASE cfg.kind = "map" ->
         JObject([k \in DOMAIN cfg.fields |-> JsonValueOf(cfg.fields[k])])
    [] cfg.kind = "str" -> JString
    [] cfg.kind = "int" -> JNumber(cfg.n * 10, FALSE)
    [] OTHER -> JNumber(cfg.tenths, TRUE)

JsonEncode(cfg) == JsonText(JsonValueOf(cfg))

\* YAML text: a well-formed document of tagged nodes, or text the parser
\* rejects.  A mapping node lists its keys as nodes of their own.
YamlText(node) == [wellFormed |-> TRUE, node |-> node]
MalformedYaml == [wellFormed |-> FALSE, node |-> [tag |-> "!!null"]]
YMap(keyTag, fields) == [tag |-> "!!map", keyTag |-> keyTag, fields |-> fields]
YStr == [tag |-> "!!str"]
YInt(n) == [tag |-> "!!int", n |-> n]
YFloat(tenths) == [tag |-> "!!float", tenths |-> tenths]

\* the YAML text of a configuration
RECURSIVE YamlNodeOf(_)
YamlNodeOf(cfg) ==
  CASE cfg.kind = "map" ->
         YMap("!!str", [k \in DOMAIN cfg.fields |-> YamlNodeOf(cfg.fields[k])])
    [] cfg.kind = "str" -> YStr
    [] cfg.kind = "int" -> YInt(cfg.n)
    [] OTHER -> YFloat(cfg.tenths)

YamlEncode(cfg) == YamlText(YamlNodeOf(cfg))

\* a YAML mapping whose keys are integers: no JSON object has such keys
YamlIntKeys == YamlText(YMap("!!int", "8080" :> YStr))

\* the Go value yaml.v3 decodes a node to when the target is interface{}
RECURSIVE yamlDecode(_)
yamlDecode(node) ==
  CASE node.tag = "!!map" ->
         [go |-> IF node.keyTag = "!!str" THEN "map[string]interface{}"
                 ELSE "map[interface{}]interface{}",
          fields |-> [k \in DOMAIN node.fields |-> yamlDecode(node.fields[k])]]
    [] node.tag = "!!str" -> [go |-> "string"]
    [] node.tag = "!!int" -> [go |-> "int", n |-> node.n]
    [] node.tag = "!!float" -> [go |-> "float64", tenths |-> node.tenths]
    [] OTHER -> [go |-> "nil"]

\* yaml.Unmarshal(yamlData, &data) with var data interface{}
yamlUnmarshal(yamlData) ==
  IF yamlData.wellFormed
  THEN [err |-> FALSE, value |-> yamlDecode(yamlData.node)]
  ELSE [err |-> TRUE, value |-> [go |-> "nil"]]

\* whether encoding/json has an encoder for every part of a Go value
RECURSIVE jsonSupported(_)
jsonSupported(v) ==
  CASE v.go = "map[interface{}]interface{}" -> FALSE
    [] v.go = "map[string]interface{}" ->
         \A k \in DOMAIN v.fields : jsonSupported(v.fields[k])
    [] OTHER -> TRUE

\* the JSON value encoding/json writes for a Go value: an int as digits, a
\* float64 in the shortest form, so without ".0" when it is integral
RECURSIVE jsonValueOfGo(_)
jsonValueOfGo(v) ==
  CASE v.go = "map[string]interface{}" ->
         JObject([k \in DOMAIN v.fields |-> jsonValueOfGo(v.fields[k])])
    [] v.go = "string" -> JString
    [] v.go = "int" -> JNumber(v.n * 10, FALSE)
    [] v.go = "float64" -> JNumber(v.tenths, v.tenths % 10 # 0)
    [] OTHER -> [kind |-> "null"]

\* json.Marshal(data)
jsonMarshal(v) ==
  IF jsonSupported(v)
  THEN [err |-> FALSE, bytes |-> JsonText(jsonValueOfGo(v))]
  ELSE [err |-> TRUE, bytes |-> MalformedJson]

\* whether a JSON value has the JSON-schema type named by a "type" keyword; a
\* number is an integer when its value is integral, however it is written
TypeMatches(type, val) ==
  CASE type = "object" -> val.kind = "object"
    [] type = "array" -> val.kind = "array"
    [] type = "string" -> val.kind = "string"
    [] type = "boolean" -> val.kind = "boolean"
    [] type = "integer" -> val.kind = "number" /\ val.tenths % 10 = 0
    [] type = "number" -> val.kind = "number"
    [] OTHER -> TRUE

\* the path of the member k of the value at path
MemberPath(path, k) == IF path = "(root)" THEN k ELSE path \o "." \o k

\* a validator that stops at the first violation it finds
RECURSIVE ValidateValue_FailFast(_, _, _)
ValidateValue_FailFast(node, val, path) ==
  IF "type" \in DOMAIN node /\ ~TypeMatches(node.type, val)
  THEN {[field |-> path, kind |-> "invalid_type", expected |-> node.type]}
  ELSE IF val.kind = "object" /\ "properties" \in DOMAIN node
  THEN LET all == UNION { ValidateValue_FailFast(node.properties[k],
                            val.fields[k], MemberPath(path, k)) :
                          k \in DOMAIN val.fields \cap DOMAIN node.properties }
       IN IF all = {} THEN {} ELSE {CHOOSE e \in all : TRUE}
  ELSE {}

\* a validator that takes every declared property as required
RECURSIVE ValidateValue_RequireDeclared(_, _, _)
ValidateValue_RequireDeclared(node, val, path) ==
  IF "type" \in DOMAIN node /\ ~TypeMatches(node.type, val)
  THEN {[field |-> path, kind |-> "invalid_type", expected |-> node.type]}
  ELSE IF val.kind = "object"
  THEN LET declared == IF "properties" \in DOMAIN node
                       THEN DOMAIN node.properties ELSE {}
           required == declared
       IN UNION ( { ValidateValue_RequireDeclared(node.properties[k], val.fields[k],
                    MemberPath(path, k)) :
                    k \in DOMAIN val.fields \cap declared }
                  \cup
                  { IF "additionalProperties" \in DOMAIN node
                    THEN ValidateValue_RequireDeclared(node.additionalProperties, val.fields[k],
                         MemberPath(path, k))
                    ELSE {} :
                    k \in DOMAIN val.fields \ declared }
                  \cup
                  { {[field |-> path, kind |-> "required", expected |-> k]} :
                    k \in required \ DOMAIN val.fields } )
  ELSE {}

\* a validator that rejects every undeclared member
RECURSIVE ValidateValue_Strict(_, _, _)
ValidateValue_Strict(node, val, path) ==
  IF "type" \in DOMAIN node /\ ~TypeMatches(node.type, val)
  THEN {[field |-> path, kind |-> "invalid_type", expected |-> node.type]}
  ELSE IF val.kind = "object"
  THEN LET declared == IF "properties" \in DOMAIN node
                       THEN DOMAIN node.properties ELSE {}
           required == IF "required" \in DOMAIN node THEN node.required ELSE {}
       IN UNION ( { ValidateValue_Strict(node.properties[k], val.fields[k],
                    MemberPath(path, k)) :
                    k \in DOMAIN val.fields \cap declared }
                  \cup
                  { {[field |-> path, kind |-> "additional_property_not_allowed",
                     expected |-> k]} :
                    k \in DOMAIN val.fields \ declared }
                  \cup
                  { {[field |-> path, kind |-> "required", expected |-> k]} :
                    k \in required \ DOMAIN val.fields } )
  ELSE {}

\* the errors of one value against one schema node: a value of the wrong type
\* is one error and is not looked into; every member of an object that the
\* node declares is checked; an undeclared member is checked only against an
\* additionalProperties schema, and allowed when the node has none; a member
\* the node requires and the object lacks is an error
RECURSIVE ValidateValue(_, _, _)
ValidateValue(node, val, path) ==
  IF "type" \in DOMAIN node /\ ~TypeMatches(node.type, val)
  THEN {[field |-> path, kind |-> "invalid_type", expected |-> node.type]}
  ELSE IF val.kind = "object"
  THEN LET declared == IF "properties" \in DOMAIN node
                       THEN DOMAIN node.properties ELSE {}
           required == IF "required" \in DOMAIN node THEN node.required ELSE {}
       IN UNION ( { ValidateValue(node.properties[k], val.fields[k],
                    MemberPath(path, k)) :
                    k \in DOMAIN val.fields \cap declared }
                  \cup
                  { IF "additionalProperties" \in DOMAIN node
                    THEN ValidateValue(node.additionalProperties, val.fields[k],
                         MemberPath(path, k))
                    ELSE {} :
                    k \in DOMAIN val.fields \ declared }
                  \cup
                  { {[field |-> path, kind |-> "required", expected |-> k]} :
                    k \in required \ DOMAIN val.fields } )
  ELSE {}

\* gojsonschema.Validate(schemaLoader, documentLoader)
gojsonschemaValidate(schemaDoc, jsonData) ==
  IF ~jsonData.wellFormed
  THEN [err |-> TRUE, valid |-> FALSE, errors |-> {}]
  ELSE LET errors == ValidateValue(schemaDoc, jsonData.value, "(root)")
       IN [err |-> FALSE, valid |-> errors = {}, errors |-> errors]

NoResult == [valid |-> FALSE, errors |-> {}, present |-> FALSE]

\* GetComponentSchemaJSON
GetComponentSchemaJSON(c, componentType, componentName, version, ptr) ==
  LET got == GetComponentSchema(c, componentType, componentName, version, ptr)
  IN [cache |-> got.cache, lookup |-> got,
      err |-> got.err,
      json |-> IF got.err # NoError THEN NoBytes
               ELSE MarshalIndent(got.schema.Schema)]

\* ValidateComponentJSON with the error of gojsonschema.Validate turned into
\* an invalid result instead of being returned
ValidateComponentJSON_FoldError(c, componentType, componentName, version, jsonData, ptr) ==
  LET got == GetComponentSchema(c, componentType, componentName, version, ptr)
      res == gojsonschemaValidate(got.schema.Schema, jsonData)
  IN IF got.err # NoError
     THEN [cache |-> got.cache, lookup |-> got, result |-> NoResult,
           err |-> Wrap("failed to get schema for %s %s v%s: %w",
                        <<componentType, componentName, version>>, got.err)]
     ELSE IF res.err
     THEN [cache |-> got.cache, lookup |-> got, err |-> NoError,
           result |-> [valid |-> FALSE, present |-> TRUE,
                       errors |-> {[field |-> "(root)", kind |-> "parse",
                                    expected |-> "json"]}]]
     ELSE [cache |-> got.cache, lookup |-> got, err |-> NoError,
           result |-> [valid |-> res.valid, errors |-> res.errors,
                       present |-> TRUE]]

\* ValidateComponentJSON with an invalid result returned as an error
ValidateComponentJSON_FailureIsError(c, componentType, componentName, version, jsonData, ptr) ==
  LET got == GetComponentSchema(c, componentType, componentName, version, ptr)
      res == gojsonschemaValidate(got.schema.Schema, jsonData)
  IN IF got.err # NoError
     THEN [cache |-> got.cache, lookup |-> got, result |-> NoResult,
           err |-> Wrap("failed to get schema for %s %s v%s: %w",
                        <<componentType, componentName, version>>, got.err)]
     ELSE IF res.err \/ ~res.valid
     THEN [cache |-> got.cache, lookup |-> got, result |-> NoResult,
           err |-> Errorf("validation failed for %s %s: %w",
                          <<componentType, componentName>>)]
     ELSE [cache |-> got.cache, lookup |-> got, err |-> NoError,
           result |-> [valid |-> res.valid, errors |-> res.errors,
                       present |-> TRUE]]

\* ValidateComponentJSON
ValidateComponentJSON(c, componentType, componentName, version, jsonData, ptr) ==
  LET got == GetComponentSchema(c, componentType, componentName, version, ptr)
      res == gojsonschemaValidate(got.schema.Schema, jsonData)
  IN IF got.err # NoError
     THEN [cache |-> got.cache, lookup |-> got, result |-> NoResult,
           err |-> Wrap("failed to get schema for %s %s v%s: %w",
                        <<componentType, componentName, version>>, got.err)]
     ELSE IF res.err
     THEN [cache |-> got.cache, lookup |-> got, result |-> NoResult,
           err |-> Errorf("validation failed for %s %s: %w",
                          <<componentType, componentName>>)]
     ELSE [cache |-> got.cache, lookup |-> got, err |-> NoError,
           result |-> [valid |-> res.valid, errors |-> res.errors,
                       present |-> TRUE]]

\* what a call reports about its schema lookup when it returns before it
NoLookup(c) == [cache |-> c, schema |-> NilSchema, err |-> NoError, reads |-> 0]

\* ValidateComponentYAML with the YAML decoded into a map[string]interface{}
\* as loadSchemaFromFile does, instead of into an interface{}
ValidateComponentYAML_IntoMap(c, componentType, componentName, version, yamlData, ptr) ==
  LET data == yamlUnmarshal(yamlData)
      jsonData == jsonMarshal(data.value)
  IN IF data.err \/ data.value.go # "map[string]interface{}"
     THEN [cache |-> c, lookup |-> NoLookup(c), result |-> NoResult,
           err |-> Errorf("failed to parse YAML data: %w", <<>>)]
     ELSE IF jsonData.err
     THEN [cache |-> c, lookup |-> NoLookup(c), result |-> NoResult,
           err |-> Errorf("failed to convert YAML to JSON for validation: %w",
                          <<>>)]
     ELSE ValidateComponentJSON(c, componentType, componentName, version,
                                jsonData.bytes, ptr)

\* ValidateComponentYAML with the schema looked up before the YAML is parsed
ValidateComponentYAML_LookupFirst(c, componentType, componentName, version, yamlData, ptr) ==
  LET got == GetComponentSchema(c, componentType, componentName, version, ptr)
      data == yamlUnmarshal(yamlData)
      jsonData == jsonMarshal(data.value)
  IN IF data.err
     THEN [cache |-> got.cache, lookup |-> got, result |-> NoResult,
           err |-> Errorf("failed to parse YAML data: %w", <<>>)]
     ELSE IF jsonData.err
     THEN [cache |-> got.cache, lookup |-> got, result |-> NoResult,
           err |-> Errorf("failed to convert YAML to JSON for validation: %w",
                          <<>>)]
     ELSE ValidateComponentJSON(c, componentType, componentName, version,
                                jsonData.bytes, ptr)

\* ValidateComponentYAML
ValidateComponentYAML(c, componentType, componentName, version, yamlData, ptr) ==
  LET data == yamlUnmarshal(yamlData)
      jsonData == jsonMarshal(data.value)
  IN IF data.err
     THEN [cache |-> c, lookup |-> NoLookup(c), result |-> NoResult,
           err |-> Errorf("failed to parse YAML data: %w", <<>>)]
     ELSE IF jsonData.err
     THEN [cache |-> c, lookup |-> NoLookup(c), result |-> NoResult,
           err |-> Errorf("failed to convert YAML to JSON for validation: %w",
                          <<>>)]
     ELSE ValidateComponentJSON(c, componentType, componentName, version,
                                jsonData.bytes, ptr)

\* DeprecatedField{Name, Description, Type} of a property flagged deprecated
DeprecatedField(fieldPath, fieldSchemaMap) ==
  [Name |-> fieldPath,
   Description |-> IF "description" \in DOMAIN fieldSchemaMap
                   THEN fieldSchemaMap.description ELSE "",
   Type |-> IF "type" \in DOMAIN fieldSchemaMap
            THEN fieldSchemaMap.type ELSE ""]

\* findDeprecatedFields: the sequences the walk can append, one for each order
\* in which the range loops can visit the keys of the properties maps
RECURSIVE findDeprecatedFields(_, _)
RECURSIVE RangeProperties(_, _, _)
\* the range loop with fieldPath := fieldName, whatever currentPath is
RangeProperties_NoPrefix(properties, rest, currentPath) ==
  IF rest = {} THEN {<<>>}
  ELSE UNION {
    LET fieldPath == fieldName
        fieldSchemaMap == properties[fieldName]
        own == IF "deprecated" \in DOMAIN fieldSchemaMap
                  /\ fieldSchemaMap.deprecated = TRUE
               THEN <<DeprecatedField(fieldPath, fieldSchemaMap)>>
               ELSE <<>>
    IN { own \o nested \o later :
           nested \in findDeprecatedFields(fieldSchemaMap, fieldPath),
           later \in RangeProperties(properties, rest \ {fieldName}, currentPath) }
    : fieldName \in rest }

\* findDeprecatedFields with the items of a node without properties scanned
\* under the node's own path
findDeprecatedFields_WithItems(schema, currentPath) ==
  IF "properties" \in DOMAIN schema
  THEN RangeProperties(schema.properties, DOMAIN schema.properties, currentPath)
  ELSE IF "items" \in DOMAIN schema
  THEN findDeprecatedFields(schema.items, currentPath)
  ELSE {<<>>}

findDeprecatedFields(schema, currentPath) ==
  IF "properties" \in DOMAIN schema
  THEN RangeProperties(schema.properties, DOMAIN schema.properties, currentPath)
  ELSE {<<>>}

RangeProperties(properties, rest, currentPath) ==
  IF rest = {} THEN {<<>>}
  ELSE UNION {
    LET fieldPath == IF currentPath = "" THEN fieldName
                     ELSE currentPath \o "." \o fieldName
        fieldSchemaMap == properties[fieldName]
        own == IF "deprecated" \in DOMAIN fieldSchemaMap
                  /\ fieldSchemaMap.deprecated = TRUE
               THEN <<DeprecatedField(fieldPath, fieldSchemaMap)>>
               ELSE <<>>
    IN { own \o nested \o later :
           nested \in findDeprecatedFields(fieldSchemaMap, fieldPath),
           later \in RangeProperties(properties, rest \ {fieldName}, currentPath) }
    : fieldName \in rest }

\* GetDeprecatedFields: the possible outcomes of the call
GetDeprecatedFields(c, componentType, componentName, version, ptr) ==
  LET got == GetComponentSchema(c, componentType, componentName, version, ptr)
  IN IF got.err # NoError
     THEN { [cache |-> got.cache, lookup |-> got, fields |-> <<>>,
             err |-> Wrap("failed to get schema for %s %s v%s: %w",
                          <<componentType, componentName, version>>, got.err)] }
     ELSE { [cache |-> got.cache, lookup |-> got, fields |-> fields,
             err |-> NoError] :
            fields \in findDeprecatedFields(got.schema.Schema, "") }

\* the loop of GetComponentNames without the ".yaml" suffix test of line 478
RECURSIVE CollectComponentNames_AnySuffix(_, _, _)
CollectComponentNames_AnySuffix(entries, i, prefix) ==
  IF i > Len(entries) THEN <<>>
  ELSE LET entry == entries[i]
           name == TrimSuffix(entry.Name, S_yaml)
           componentName == TrimPrefix(name, prefix)
       IN (IF /\ ~entry.IsDir
              /\ HasPrefix(entry.Name, prefix)
              /\ componentName # <<>>
           THEN <<componentName>> ELSE <<>>)
          \o CollectComponentNames_AnySuffix(entries, i + 1, prefix)

\* the loop of GetComponentNames over the directory entries from index i on
RECURSIVE CollectComponentNames(_, _, _)
CollectComponentNames(entries, i, prefix) ==
  IF i > Len(entries) THEN <<>>
  ELSE LET entry == entries[i]
           name == TrimSuffix(entry.Name, S_yaml)
           componentName == TrimPrefix(name, prefix)
       IN (IF /\ ~(entry.IsDir \/ ~HasSuffix(entry.Name, S_yaml))
              /\ HasPrefix(entry.Name, prefix)
              /\ componentName # <<>>
           THEN <<componentName>> ELSE <<>>)
          \o CollectComponentNames(entries, i + 1, prefix)

\* GetComponentNames without the test of the component type
GetComponentNames_NoTypeCheck(componentType, version) ==
  LET dir == ReadDir(VersionDir(version))
      componentNames ==
        CollectComponentNames(dir.entries, 1, componentType \o S_us)
  IN IF dir.err
     THEN [names |-> <<>>,
           err |-> Errorf("failed to read schema directory for version %s: %w",
                          <<version>>)]
     ELSE IF Len(componentNames) = 0
     THEN [names |-> <<>>,
           err |-> Errorf("no %s components found for version %s",
                          <<componentType, version>>)]
     ELSE [names |-> componentNames, err |-> NoError]

\* GetComponentNames
GetComponentNames(componentType, version) ==
  LET dir == ReadDir(VersionDir(version))
      componentNames ==
        CollectComponentNames(dir.entries, 1, componentType \o S_us)
  IN IF ~isValidComponentType(componentType)
     THEN [names |-> <<>>,
           err |-> Errorf("invalid component type: %s", <<componentType>>)]
     ELSE IF dir.err
     THEN [names |-> <<>>,
           err |-> Errorf("failed to read schema directory for version %s: %w",
                          <<version>>)]
     ELSE IF Len(componentNames) = 0
     THEN [names |-> <<>>,
           err |-> Errorf("no %s components found for version %s",
                          <<componentType, version>>)]
     ELSE [names |-> componentNames, err |-> NoError]

\* GetComponentReadme
GetComponentReadme(componentType, componentName, version) ==
  LET filename == componentType \o S_us \o componentName \o S_md
      file == ReadFile(filepathJoin(VersionDir(version), filename))
  IN IF file.err
     THEN [text |-> PlainText(""),
           err |-> Errorf("README not found for component %s %s v%s",
                          <<componentType, componentName, version>>)]
     ELSE [text |-> file.data, err |-> NoError]

\* GetChangelog
GetChangelog(version) ==
  LET file == ReadFile(filepathJoin(VersionDir(version), S_changelog \o S_md))
  IN IF file.err
     THEN [text |-> PlainText(""),
           err |-> Errorf("changelog not found for version %s", <<version>>)]
     ELSE [text |-> file.data, err |-> NoError]

\* strings.Index for a one-character needle: the first position, 0 when none
IndexChar(s, c) ==
  IF ContainsChar(s, c)
  THEN CHOOSE i \in 1..Len(s) : s[i] = c /\ \A j \in 1..(i - 1) : s[j] # c
  ELSE 0

\* strings.SplitN(s, "_", 2)
SplitN2(s) ==
  LET i == IndexChar(s, "_")
  IN IF i = 0 THEN <<s>>
     ELSE <<SubSeq(s, 1, i - 1), SubSeq(s, i + 1, Len(s))>>

\* components[componentType] = append(components[componentType], componentName)
AppendComponent(components, componentType, componentName) ==
  [k \in DOMAIN components \cup {componentType} |->
     IF k = componentType
     THEN (IF k \in DOMAIN components THEN components[k] ELSE <<>>)
          \o <<componentName>>
     ELSE components[k]]

\* make(map[ComponentType][]string)
NoComponents == [k \in {} |-> <<>>]

\* the loop of listEmbeddedComponents without the test of the component type
RECURSIVE CollectComponents_AnyType(_, _, _)
CollectComponents_AnyType(entries, i, components) ==
  IF i > Len(entries) THEN components
  ELSE LET entry == entries[i]
           name == TrimSuffix(entry.Name, S_yaml)
           parts == SplitN2(name)
       IN CollectComponents_AnyType(entries, i + 1,
            IF \/ entry.IsDir \/ ~HasSuffix(entry.Name, S_yaml)
               \/ Len(parts) # 2
            THEN components
            ELSE AppendComponent(components, parts[1], parts[2]))

\* the loop of listEmbeddedComponents over the directory entries from index i on
RECURSIVE CollectComponents(_, _, _)
CollectComponents(entries, i, components) ==
  IF i > Len(entries) THEN components
  ELSE LET entry == entries[i]
           name == TrimSuffix(entry.Name, S_yaml)
           parts == SplitN2(name)
       IN CollectComponents(entries, i + 1,
            IF \/ entry.IsDir \/ ~HasSuffix(entry.Name, S_yaml)
               \/ Len(parts) # 2
               \/ ~isValidComponentType(parts[1])
            THEN components
            ELSE AppendComponent(components, parts[1], parts[2]))

\* listEmbeddedComponents
listEmbeddedComponents(version) ==
  LET dir == ReadDir(VersionDir(version))
  IN IF dir.err
     THEN [components |-> NoComponents,
           err |-> Errorf("failed to read embedded schema directory: %w", <<>>)]
     ELSE [components |-> CollectComponents(dir.entries, 1, NoComponents),
           err |-> NoError]

\* ListAvailableComponents
ListAvailableComponents(version) == listEmbeddedComponents(version)

\* the loop of GetLatestVersion that keeps the first version it meets
RECURSIVE LatestVersionFrom_KeepFirst(_, _, _)
LatestVersionFrom_KeepFirst(entries, i, latestVersion) ==
  IF i > Len(entries) THEN latestVersion
  ELSE LET entry == entries[i]
           version == entry.Name
       IN LatestVersionFrom_KeepFirst(entries, i + 1,
            IF /\ entry.IsDir
               /\ ContainsChar(version, ".")
               /\ latestVersion = <<>>
            THEN version ELSE latestVersion)

\* the loop of GetLatestVersion over the directory entries from index i on
RECURSIVE LatestVersionFrom(_, _, _)
LatestVersionFrom(entries, i, latestVersion) ==
  IF i > Len(entries) THEN latestVersion
  ELSE LET entry == entries[i]
           version == entry.Name
       IN LatestVersionFrom(entries, i + 1,
            IF /\ entry.IsDir
               /\ ContainsChar(version, ".")
               /\ (latestVersion = <<>> \/ StrLess(latestVersion, version))
            THEN version ELSE latestVersion)

\* GetLatestVersion, given what fs.ReadDir(embeddedSchemas, "schemas") returns
GetLatestVersion(dir) ==
  LET latestVersion == LatestVersionFrom(dir.entries, 1, <<>>)
  IN IF dir.err
     THEN [version |-> <<>>,
           err |-> Errorf("failed to read schemas directory: %w", <<>>)]
     ELSE IF latestVersion = <<>>
     THEN [version |-> <<>>,
           err |-> Errorf("no versions found in schemas directory", <<>>)]
     ELSE [version |-> latestVersion, err |-> NoError]

\* the loop of GetAllVersions without the test for a "." in the name
RECURSIVE CollectVersions_AnyDir(_, _)
CollectVersions_AnyDir(entries, i) ==
  IF i > Len(entries) THEN <<>>
  ELSE LET entry == entries[i]
           version == entry.Name
       IN (IF entry.IsDir THEN <<version>> ELSE <<>>)
          \o CollectVersions_AnyDir(entries, i + 1)

\* the loop of GetAllVersions over the directory entries from index i on
RECURSIVE CollectVersions(_, _)
CollectVersions(entries, i) ==
  IF i > Len(entries) THEN <<>>
  ELSE LET entry == entries[i]
           version == entry.Name
       IN (IF entry.IsDir /\ ContainsChar(version, ".")
           THEN <<version>> ELSE <<>>)
          \o CollectVersions(entries, i + 1)

\* GetAllVersions, given what fs.ReadDir(embeddedSchemas, "schemas") returns
GetAllVersions(dir) ==
  LET versions == CollectVersions(dir.entries, 1)
  IN IF dir.err
     THEN [versions |-> <<>>,
           err |-> Errorf("failed to read schemas directory: %w", <<>>)]
     ELSE IF Len(versions) = 0
     THEN [versions |-> <<>>,
           err |-> Errorf("no versions found in schemas directory", <<>>)]
     ELSE [versions |-> versions, err |-> NoError]

----------------------------------------------------------------------------
(* The documentation index                                                 *)

\* a new manager: ragInit has not run and ragCollection is nil; initErr is the
\* value the one run of the closure of ragInit.Do left in the err of its caller
NoRAG == [once |-> FALSE, collection |-> {}, created |-> FALSE, initErr |-> NoError]

\* the chromem.Document indexMarkdownFiles builds for a markdown file
MarkdownDocument(version, entryName) ==
  LET componentName == TrimSuffix(entryName, S_md)
      parts == SplitN2(componentName)
  IN [ID |-> version \o S_slash \o componentName,
      version |-> version,
      component |-> componentName,
      component_type |-> IF Len(parts) = 2 THEN parts[1] ELSE <<>>,
      component_name |-> IF Len(parts) = 2 THEN parts[2] ELSE <<>>]

\* the loop of indexMarkdownFiles: the documents it adds to the collection
MarkdownDocuments(version, entries) ==
  { MarkdownDocument(version, entries[i].Name) :
      i \in { j \in 1..Len(entries) :
                /\ ~(entries[j].IsDir \/ ~HasSuffix(entries[j].Name, S_md))
                /\ ~ReadFile(Path(VersionDir(version), entries[j].Name)).err } }

\* indexMarkdownFiles, given what fs.ReadDir returned
IndexEntries(version, dir) ==
  IF dir.err
  THEN [docs |-> {},
        err |-> Errorf("failed to read schema directory for version %s: %w",
                       <<version>>)]
  ELSE [docs |-> MarkdownDocuments(version, dir.entries), err |-> NoError]

indexMarkdownFiles(version) == IndexEntries(version, ReadDir(VersionDir(version)))

\* the loop of the closure over the versions from index i on
RECURSIVE IndexVersions(_, _, _)
\* one round of the loop, given what indexMarkdownFiles returned
IndexVersion(versions, i, collection, indexed) ==
  IF indexed.err # NoError
  THEN [collection |-> collection,
        err |-> Wrap("failed to index markdown files for version %s: %w",
                     <<versions[i]>>, indexed.err)]
  ELSE IndexVersions(versions, i + 1, collection \cup indexed.docs)

IndexVersions(versions, i, collection) ==
  IF i > Len(versions) THEN [collection |-> collection, err |-> NoError]
  ELSE IndexVersion(versions, i, collection, indexMarkdownFiles(versions[i]))

\* the state the closure leaves after its loop
Indexed(indexed) ==
  [once |-> TRUE, created |-> TRUE, collection |-> indexed.collection,
   initErr |-> indexed.err]

\* the closure handed to ragInit.Do, given what GetAllVersions returned
RunRagInit(all) ==
  IF all.err # NoError
  THEN [once |-> TRUE, created |-> TRUE, collection |-> {},
        initErr |-> Wrap("failed to get versions for RAG indexing: %w",
                         <<>>, all.err)]
  ELSE Indexed(IndexVersions(all.versions, 1, {}))

\* what initRAGDatabase returns when the closure ran
InitOutcome(run) == [rag |-> run, err |-> run.initErr]

\* initRAGDatabase: err is a local of the call, set only when the closure runs
initRAGDatabase(r, dir) ==
  IF r.once THEN [rag |-> r, err |-> NoError]
  ELSE InitOutcome(RunRagInit(GetAllVersions(dir)))

\* the documents a where filter keeps
Filtered(collection, where) ==
  { d \in collection : \A k \in DOMAIN where : d[k] = where[k] }

\* the sets of at most nResults documents, as many as there are to take
Nearest(kept, nResults) ==
  { c \in SUBSET kept :
      Cardinality(c) = IF nResults < Cardinality(kept)
                       THEN nResults ELSE Cardinality(kept) }

\* ragCollection.Query: an error for more results than the collection has
\* documents, and otherwise nResults of the documents the filter keeps (all of
\* them when there are fewer), chosen by similarity
Query(collection, nResults, where) ==
  IF nResults <= 0 \/ nResults > Cardinality(collection)
  THEN { [results |-> {}, err |-> Errorf("nResults out of range", <<>>)] }
  ELSE { [results |-> chosen, err |-> NoError] :
         chosen \in Nearest(Filtered(collection, where), nResults) }

\* the part QueryDocumentation and QueryDocumentationWithFilters share, given
\* what initRAGDatabase returned: the outcomes of the call
QueryWith(init, maxResults, where, message) ==
  IF init.err # NoError
  THEN { [rag |-> init.rag, results |-> {}, queried |-> FALSE,
          err |-> Wrap("failed to initialize RAG database: %w", <<>>,
                       init.err)] }
  ELSE { [rag |-> init.rag, results |-> q.results, queried |-> TRUE,
          err |-> IF q.err # NoError THEN Wrap(message, <<>>, q.err)
                  ELSE NoError] :
         q \in Query(init.rag.collection, maxResults, where) }

\* the where filter of QueryDocumentationWithFilters
WhereOf(componentType, componentName, version) ==
  LET given == ("component_type" :> componentType)
               @@ ("component_name" :> componentName)
               @@ ("version" :> version)
  IN [k \in { key \in DOMAIN given : given[key] # <<>> } |-> given[k]]

\* QueryDocumentation
QueryDocumentation(r, dir, version, maxResults) ==
  QueryWith(initRAGDatabase(r, dir), maxResults, "version" :> version,
            "failed to query RAG database: %w")

\* QueryDocumentationWithFilters
QueryDocumentationWithFilters(r, dir, maxResults, componentType, componentName, version) ==
  QueryWith(initRAGDatabase(r, dir), maxResults,
            WhereOf(componentType, componentName, version),
            "failed to query RAG database with filters: %w")

----------------------------------------------------------------------------
(* The manager as a state machine: sequential use                          *)

VARIABLES
  cache,     \* SchemaManager.cache: cache key -> *ComponentSchema
  nextPtr,   \* the address the next allocated ComponentSchema gets
  last,      \* the most recent call on the manager and what it returned
  pc,        \* concurrent callers: where each is inside GetComponentSchema
  call,      \* concurrent callers: arguments and locals of the current call
  lastWriter,\* the caller whose write of the cache map completed last
  crashed,   \* the runtime stopped the process with a fatal error
  schemasDir,\* the entries of the directory "schemas" of the embedded tree
  rag        \* ragInit, ragCollection and the error the one run of ragInit set

vars == <<cache, nextPtr, last, pc, call, lastWriter, crashed, schemasDir, rag>>
callerVars == <<pc, call, lastWriter, crashed, schemasDir, rag>>

\* goroutines that serve requests at the same time
Threads == {1, 2}

\* allocations are capped so that the state space stays finite
MaxObjects == 4

S_processor_tail == ComponentTypeProcessor \o S_us \o S_tail
V_sampling_0_9_0 == S_sampling \o S_us \o V_0_9_0

\* arguments callers pass
Types == {ComponentTypeReceiver, ComponentTypeProcessor, S_processor_tail, S_invalid}
Versions == {V_0_9_0, V_0_10_0, V_9_9_9}

\* (componentType, componentName, version) triples callers ask for
Identities ==
  { <<ComponentTypeReceiver, S_otlp, V_0_9_0>>,
    <<ComponentTypeReceiver, S_otlp, V_0_10_0>>,
    <<ComponentTypeProcessor, S_tail_sampling, V_0_9_0>>,
    <<S_processor_tail, S_sampling, V_0_9_0>>,
    <<ComponentTypeProcessor, S_tail, V_sampling_0_9_0>>,
    <<ComponentTypeReceiver, S_nonexistent, V_0_9_0>>,
    <<S_invalid, S_otlp, V_0_9_0>> }

\* configurations callers validate
EmptyConfig == CMap(<<>>)
TwoViolations == CMap([decision_wait |-> CInt(5), num_traces |-> CStr])
ValidTailSampling == CMap([decision_wait |-> CStr, num_traces |-> CFloat(10)])
WithUnknownKey ==
  CMap([decision_wait |-> CStr, num_traces |-> CFloat(10), extra |-> CStr])

NestedViolation ==
  CMap([protocols |-> CMap([grpc |-> CStr]), num_traces |-> CFloat(15)])
ConstrainedMember == CMap([headers |-> CMap([a |-> CInt(1)])])

Configs ==
  { EmptyConfig, TwoViolations, ValidTailSampling, WithUnknownKey,
    NestedViolation, ConstrainedMember, CStr }

\* identities callers validate configurations for
ValidatedIdentities ==
  { <<ComponentTypeReceiver, S_otlp, V_0_9_0>>,
    <<ComponentTypeReceiver, S_otlp, V_0_10_0>>,
    <<ComponentTypeProcessor, S_tail_sampling, V_0_9_0>>,
    <<ComponentTypeReceiver, S_nonexistent, V_0_9_0>> }

\* jsonData arguments of ValidateComponentJSON
Candidates == {MalformedJson} \cup { JsonEncode(cfg) : cfg \in Configs }

\* yamlData arguments of ValidateComponentYAML
YamlCandidates ==
  {MalformedYaml, YamlIntKeys} \cup { YamlEncode(cfg) : cfg \in Configs }

\* no input bytes
NoInput == [wellFormed |-> FALSE, absent |-> TRUE]

\* mcp.NewTool: the name of a tool and the parameter it declares for the
\* collector version
NewTool(name, versionParam, required) ==
  [Name |-> name, VersionParam |-> versionParam, Required |-> required]
NoTool == NewTool("", "", {})

\* the arguments of a mcp.CallToolRequest: parameter name -> value
NoArguments == [k \in {} |-> <<>>]

\* request.RequireString(key) and request.RequireStringSlice(key)
Require(request, key) ==
  IF key \in DOMAIN request
  THEN [err |-> FALSE, value |-> request[key]]
  ELSE [err |-> TRUE, value |-> <<>>]

\* request.GetString(key, defaultValue)
GetString(request, key, defaultValue) ==
  IF key \in DOMAIN request THEN request[key] ELSE defaultValue

\* mcp.NewToolResultError(fmt.Sprintf(format, args...))
NewToolResultError(format, args) ==
  [IsError |-> TRUE, format |-> format, args |-> args]

\* mcp.NewToolResultText(fmt.Sprintf(format, args...))
NewToolResultText(format, args) ==
  [IsError |-> FALSE, format |-> format, args |-> args]

\* the nil *mcp.CallToolResult
NoToolResult == [IsError |-> FALSE, format |-> "nil", args |-> <<>>]

NoCall ==
  [op |-> "none", ctype |-> <<>>, name |-> <<>>, version |-> <<>>,
   lookupErr |-> NoError, err |-> NoError, schema |-> NilSchema, reads |-> 0,
   json |-> NoBytes, result |-> NoResult, fields |-> <<>>, names |-> <<>>,
   input |-> NoInput, latest |-> <<>>, versions |-> <<>>,
   components |-> NoComponents, tool |-> NoTool, request |-> NoArguments,
   toolResult |-> NoToolResult, handlerErr |-> NoError, served |-> FALSE,
   text |-> PlainText(""), afterError |-> FALSE, queried |-> FALSE,
   results |-> {}]

\* the record of a call that went through GetComponentSchema
LookupCall(op, componentType, componentName, version, got) ==
  [NoCall EXCEPT !.op = op, !.ctype = componentType, !.name = componentName,
                 !.version = version, !.lookupErr = got.err, !.err = got.err,
                 !.schema = got.schema, !.reads = got.reads]

NoFrame ==
  [id |-> <<<<>>, <<>>, <<>>>>, schema |-> NilSchema, err |-> NoError,
   missed |-> FALSE]

\* NewSchemaManager
Init ==
  /\ cache = EmptyCache
  /\ nextPtr = 1
  /\ last = NoCall
  /\ pc = [th \in Threads |-> "idle"]
  /\ call = [th \in Threads |-> NoFrame]
  /\ lastWriter = 0
  /\ crashed = FALSE
  /\ schemasDir = DirEntries[S_schemas]
  /\ rag = NoRAG

\* the allocator moves on when the call created a ComponentSchema
Allocate(got) ==
  nextPtr' = IF got.schema.ptr = nextPtr THEN nextPtr + 1 ELSE nextPtr

CallGetComponentSchema ==
  \E id \in Identities :
    LET t == id[1]
        n == id[2]
        v == id[3]
        got == GetComponentSchema(cache, t, n, v, nextPtr)
    IN /\ nextPtr <= MaxObjects
       /\ cache' = got.cache
       /\ Allocate(got)
       /\ last' = LookupCall("GetComponentSchema", t, n, v, got)
       /\ UNCHANGED callerVars

CallGetComponentSchemaJSON ==
  \E id \in Identities :
    LET t == id[1]
        n == id[2]
        v == id[3]
        r == GetComponentSchemaJSON(cache, t, n, v, nextPtr)
    IN /\ nextPtr <= MaxObjects
       /\ cache' = r.cache
       /\ Allocate(r.lookup)
       /\ last' = [LookupCall("GetComponentSchemaJSON", t, n, v, r.lookup)
                     EXCEPT !.err = r.err, !.json = r.json, !.schema = NilSchema]
       /\ UNCHANGED callerVars

CallValidateComponentJSON ==
  \E id \in ValidatedIdentities, jsonData \in Candidates :
    LET t == id[1]
        n == id[2]
        v == id[3]
        r == ValidateComponentJSON(cache, t, n, v, jsonData, nextPtr)
    IN /\ nextPtr <= MaxObjects
       /\ cache' = r.cache
       /\ Allocate(r.lookup)
       /\ last' = [LookupCall("ValidateComponentJSON", t, n, v, r.lookup)
                     EXCEPT !.err = r.err, !.result = r.result,
                            !.schema = NilSchema, !.input = jsonData]
       /\ UNCHANGED callerVars

CallValidateComponentYAML ==
  \E id \in ValidatedIdentities, yamlData \in YamlCandidates :
    LET t == id[1]
        n == id[2]
        v == id[3]
        r == ValidateComponentYAML(cache, t, n, v, yamlData, nextPtr)
    IN /\ nextPtr <= MaxObjects
       /\ cache' = r.cache
       /\ Allocate(r.lookup)
       /\ last' = [LookupCall("ValidateComponentYAML", t, n, v, r.lookup)
                     EXCEPT !.err = r.err, !.result = r.result,
                            !.schema = NilSchema, !.input = yamlData]
       /\ UNCHANGED callerVars

CallGetDeprecatedFields ==
  \E id \in Identities :
    \E r \in GetDeprecatedFields(cache, id[1], id[2], id[3], nextPtr) :
       /\ nextPtr <= MaxObjects
       /\ cache' = r.cache
       /\ Allocate(r.lookup)
       /\ last' = [LookupCall("GetDeprecatedFields", id[1], id[2], id[3], r.lookup)
                     EXCEPT !.err = r.err, !.fields = r.fields,
                            !.schema = NilSchema]
       /\ UNCHANGED callerVars

CallGetComponentNames ==
  \E t \in Types, v \in Versions :
    LET r == GetComponentNames(t, v)
    IN /\ last' = [NoCall EXCEPT !.op = "GetComponentNames", !.ctype = t,
                                 !.version = v, !.err = r.err,
                                 !.names = r.names]
       /\ UNCHANGED <<cache, nextPtr>>
       /\ UNCHANGED callerVars

CallListAvailableComponents ==
  \E v \in Versions :
    LET r == ListAvailableComponents(v)
    IN /\ last' = [NoCall EXCEPT !.op = "ListAvailableComponents",
                                 !.version = v, !.err = r.err,
                                 !.components = r.components]
       /\ UNCHANGED <<cache, nextPtr>>
       /\ UNCHANGED callerVars

CallGetComponentReadme ==
  \E id \in ValidatedIdentities :
    LET r == GetComponentReadme(id[1], id[2], id[3])
    IN /\ last' = [NoCall EXCEPT !.op = "GetComponentReadme", !.ctype = id[1],
                                 !.name = id[2], !.version = id[3],
                                 !.err = r.err, !.text = r.text]
       /\ UNCHANGED <<cache, nextPtr>>
       /\ UNCHANGED callerVars

CallGetChangelog ==
  \E v \in Versions :
    LET r == GetChangelog(v)
    IN /\ last' = [NoCall EXCEPT !.op = "GetChangelog", !.version = v,
                                 !.err = r.err, !.text = r.text]
       /\ UNCHANGED <<cache, nextPtr>>
       /\ UNCHANGED callerVars

\* fs.ReadDir(embeddedSchemas, "schemas"): the directory is always there
ReadSchemasDir == [err |-> FALSE, entries |-> schemasDir]

CallGetLatestVersion ==
  LET r == GetLatestVersion(ReadSchemasDir)
  IN /\ last' = [NoCall EXCEPT !.op = "GetLatestVersion", !.err = r.err,
                               !.latest = r.version]
     /\ UNCHANGED <<cache, nextPtr>>
     /\ UNCHANGED callerVars

CallGetAllVersions ==
  LET r == GetAllVersions(ReadSchemasDir)
  IN /\ last' = [NoCall EXCEPT !.op = "GetAllVersions", !.err = r.err,
                               !.versions = r.versions]
     /\ UNCHANGED <<cache, nextPtr>>
     /\ UNCHANGED callerVars

Next ==
  \/ CallGetComponentSchema
  \/ CallGetComponentSchemaJSON
  \/ CallValidateComponentJSON
  \/ CallValidateComponentYAML
  \/ CallGetDeprecatedFields
  \/ CallGetComponentNames
  \/ CallListAvailableComponents
  \/ CallGetComponentReadme
  \/ CallGetChangelog
  \/ CallGetLatestVersion
  \/ CallGetAllVersions

Spec == Init /\ [][Next]_vars

----------------------------------------------------------------------------
(* The version operations on every tree a build can embed                  *)

\* names an entry of the directory "schemas" can have
EntryNameUniverse == {V_0_9_0, V_0_10_0, V_1_0, S_latest, S_notes_md}

\* the listing of a directory in which name n is a directory, a file or
\* absent as kindOf[n] says: fs.ReadDir returns the entries sorted by name
ListingOf(kindOf) ==
  LET sorted == SortStrings({ n \in EntryNameUniverse : kindOf[n] # "absent" })
  IN [i \in 1..Len(sorted) |->
        [Name |-> sorted[i], IsDir |-> kindOf[sorted[i]] = "dir"]]

Listings ==
  { ListingOf(kindOf) :
      kindOf \in [EntryNameUniverse -> {"absent", "dir", "file"}] }

InitVersions ==
  /\ cache = EmptyCache
  /\ nextPtr = 1
  /\ last = NoCall
  /\ pc = [th \in Threads |-> "idle"]
  /\ call = [th \in Threads |-> NoFrame]
  /\ lastWriter = 0
  /\ crashed = FALSE
  /\ schemasDir \in Listings
  /\ rag = NoRAG

NextVersions ==
  \/ CallGetLatestVersion
  \/ CallGetAllVersions

SpecVersions == InitVersions /\ [][NextVersions]_vars

----------------------------------------------------------------------------
(* Queries of the documentation index                                      *)

\* the listings of "schemas" whose directories are directories of the
\* embedded tree
StoreListings ==
  { l \in Listings :
      \A i \in 1..Len(l) :
        l[i].IsDir => l[i].Name \in {V_0_9_0, V_0_10_0, S_latest} }

InitRAG ==
  /\ cache = EmptyCache
  /\ nextPtr = 1
  /\ last = NoCall
  /\ pc = [th \in Threads |-> "idle"]
  /\ call = [th \in Threads |-> NoFrame]
  /\ lastWriter = 0
  /\ crashed = FALSE
  /\ schemasDir \in StoreListings
  /\ rag = NoRAG

MaxResults == 2

\* the record of a query of the documentation index
QueryCall(op, componentType, componentName, version, q) ==
  [NoCall EXCEPT !.op = op, !.ctype = componentType, !.name = componentName,
                 !.version = version, !.err = q.err, !.results = q.results,
                 !.queried = q.queried]

CallQueryDocumentation ==
  \E version \in {V_0_9_0, V_9_9_9}, maxResults \in 1..MaxResults :
    \E q \in QueryDocumentation(rag, ReadSchemasDir, version, maxResults) :
      /\ rag' = q.rag
      /\ last' = QueryCall("QueryDocumentation", <<>>, <<>>, version, q)
      /\ UNCHANGED <<cache, nextPtr, pc, call, lastWriter, crashed, schemasDir>>

CallQueryDocumentationWithFilters ==
  \E componentType \in {<<>>, ComponentTypeReceiver},
     componentName \in {<<>>, S_otlp},
     version \in {<<>>, V_0_9_0}, maxResults \in 1..MaxResults :
    \E q \in QueryDocumentationWithFilters(rag, ReadSchemasDir, maxResults,
                                           componentType, componentName,
                                           version) :
      /\ rag' = q.rag
      /\ last' = QueryCall("QueryDocumentationWithFilters", componentType,
                           componentName, version, q)
      /\ UNCHANGED <<cache, nextPtr, pc, call, lastWriter, crashed, schemasDir>>

NextRAG ==
  \/ CallQueryDocumentation
  \/ CallQueryDocumentationWithFilters

SpecRAG == InitRAG /\ [][NextRAG]_vars

----------------------------------------------------------------------------
(* The tool handlers of the server                                         *)

\* latestCollectorVersion, read once when the tools are made
latestCollectorVersion == GetLatestVersion(ReadSchemasDir).version

\* what a handler hands back: the cache it leaves, the schema lookup it made
\* (with the pointer the next allocation gets), the error the Manager returned
\* to it, the result and the error it returns, and the identity it asked for
Handled(c, lookup, ptr, managerErr, result, served, componentType, componentName, version) ==
  [cache |-> c, lookup |-> lookup, ptr |-> ptr, managerErr |-> managerErr,
   result |-> result, err |-> NoError, served |-> served,
   ctype |-> componentType, name |-> componentName, version |-> version]

\* the pointer the next allocation gets after a schema lookup
PtrAfter(got, ptr) == IF got.schema.ptr = ptr THEN ptr + 1 ELSE ptr

\* a handler returns before any Manager operation
Unserved(c, ptr, result) ==
  Handled(c, NoLookup(c), ptr, NoError, result, FALSE, <<>>, <<>>, <<>>)

\* a handler returns after a Manager operation that uses no cache
ServedNoLookup(c, ptr, managerErr, result, componentType, componentName, version) ==
  Handled(c, NoLookup(c), ptr, managerErr, result, TRUE, componentType,
          componentName, version)

\* a handler returns after a Manager operation that looks a schema up
ServedLookup(r, ptr, result, componentType, componentName, version) ==
  Handled(r.cache, r.lookup, PtrAfter(r.lookup, ptr), r.err, result, TRUE,
          componentType, componentName, version)

\* the tool opentelemetry-collector-components as an earlier revision of main
\* declares it
collectorComponentsTool ==
  NewTool("opentelemetry-collector-components", "collector-version", {"type"})

\* the tools of the tools package
getCollectorVersionsTool ==
  NewTool("opentelemetry-collector-get-versions", "", {})
getCollectorComponentsTool ==
  NewTool("opentelemetry-collector-components", "version", {"type"})
getCollectorReadmeTool ==
  NewTool("opentelemetry-collector-readme", "version", {"type", "name"})
getCollectorSchemaGetTool ==
  NewTool("opentelemetry-collector-component-schema", "version",
          {"type", "name"})
getCollectorSchemaValidationTool ==
  NewTool("opentelemetry-collector-component-schema-validation", "version",
          {"type", "name", "config"})
getCollectorComponentDeprecatedTool ==
  NewTool("opentelemetry-collector-component-deprecated-fields", "version",
          {"type", "names"})

\* the handler of opentelemetry-collector-get-versions
collectorVersionsHandler(c, request, ptr) ==
  LET all == GetAllVersions(ReadSchemasDir)
  IN IF all.err # NoError
     THEN ServedNoLookup(c, ptr, all.err,
            NewToolResultError(
              "failed to get all supported versions by this tool: %v",
              <<all.err>>), <<>>, <<>>, <<>>)
     ELSE ServedNoLookup(c, ptr, NoError,
            NewToolResultText("versions: %s", <<all.versions>>),
            <<>>, <<>>, <<>>)

\* the handler of opentelemetry-collector-components (the same in both
\* revisions)
collectorComponentsHandler(c, request, ptr) ==
  LET componentType == Require(request, "type")
      version == GetString(request, "version", latestCollectorVersion)
      components == GetComponentNames(componentType.value, version)
  IN IF componentType.err
     THEN Unserved(c, ptr,
            NewToolResultError("type argument is required: %v", <<>>))
     ELSE IF components.err # NoError
     THEN ServedNoLookup(c, ptr, components.err,
            NewToolResultError("failed to get components for %s: %v",
                               <<componentType.value, components.err>>),
            componentType.value, <<>>, version)
     ELSE ServedNoLookup(c, ptr, NoError,
            NewToolResultText("%s", <<components.names>>),
            componentType.value, <<>>, version)

\* the handler of opentelemetry-collector-readme
collectorReadmeHandler(c, request, ptr) ==
  LET componentType == Require(request, "type")
      componentName == Require(request, "name")
      version == GetString(request, "version", latestCollectorVersion)
      readme == GetComponentReadme(componentType.value, componentName.value,
                                   version)
  IN IF componentType.err
     THEN Unserved(c, ptr,
            NewToolResultError("type argument is required: %v", <<>>))
     ELSE IF componentName.err
     THEN Unserved(c, ptr,
            NewToolResultError("name argument is required: %v", <<>>))
     ELSE IF readme.err # NoError
     THEN ServedNoLookup(c, ptr, readme.err,
            NewToolResultError("failed to get readme for %s %s: %v",
              <<componentType.value, componentName.value, readme.err>>),
            componentType.value, componentName.value, version)
     ELSE ServedNoLookup(c, ptr, NoError,
            NewToolResultText("%s", <<readme.text>>),
            componentType.value, componentName.value, version)

\* the handler of opentelemetry-collector-component-schema
collectorSchemaGetHandler(c, request, ptr) ==
  LET componentType == Require(request, "type")
      componentName == Require(request, "name")
      version == GetString(request, "version", latestCollectorVersion)
      r == GetComponentSchemaJSON(c, componentType.value, componentName.value,
                                  version, ptr)
  IN IF componentType.err
     THEN Unserved(c, ptr,
            NewToolResultError("type argument is required: %v", <<>>))
     ELSE IF componentName.err
     THEN Unserved(c, ptr,
            NewToolResultError("name argument is required: %v", <<>>))
     ELSE IF r.err # NoError
     THEN ServedLookup(r, ptr,
            NewToolResultError("failed to get schema for %s/%s@%s: %v",
              <<componentType.value, componentName.value, version, r.err>>),
            componentType.value, componentName.value, version)
     ELSE ServedLookup(r, ptr, NewToolResultText("%s", <<r.json>>),
                       componentType.value, componentName.value, version)

\* the validation handler with the error of the Manager returned as the
\* handler's own error, as in `return nil, err`
collectorSchemaValidationHandler_ReturnsErr(c, request, ptr) ==
  LET componentType == Require(request, "type")
      componentName == Require(request, "name")
      config == Require(request, "config")
      version == GetString(request, "version", latestCollectorVersion)
      r == ValidateComponentJSON(c, componentType.value, componentName.value,
                                 version, config.value, ptr)
  IN IF componentType.err
     THEN Unserved(c, ptr,
            NewToolResultError("type argument is required: %v", <<>>))
     ELSE IF componentName.err
     THEN Unserved(c, ptr,
            NewToolResultError("name argument is required: %v", <<>>))
     ELSE IF config.err
     THEN Unserved(c, ptr,
            NewToolResultError("config argument is required: %v", <<>>))
     ELSE IF r.err # NoError
     THEN [ServedLookup(r, ptr, NoToolResult, componentType.value,
                        componentName.value, version) EXCEPT !.err = r.err]
     ELSE ServedLookup(r, ptr,
            NewToolResultText("is valid: %v, errors: %v",
                              <<r.result.valid, r.result.errors>>),
            componentType.value, componentName.value, version)

\* the handler of opentelemetry-collector-component-schema-validation
collectorSchemaValidationHandler(c, request, ptr) ==
  LET componentType == Require(request, "type")
      componentName == Require(request, "name")
      config == Require(request, "config")
      version == GetString(request, "version", latestCollectorVersion)
      r == ValidateComponentJSON(c, componentType.value, componentName.value,
                                 version, config.value, ptr)
  IN IF componentType.err
     THEN Unserved(c, ptr,
            NewToolResultError("type argument is required: %v", <<>>))
     ELSE IF componentName.err
     THEN Unserved(c, ptr,
            NewToolResultError("name argument is required: %v", <<>>))
     ELSE IF config.err
     THEN Unserved(c, ptr,
            NewToolResultError("config argument is required: %v", <<>>))
     ELSE IF r.err # NoError
     THEN ServedLookup(r, ptr,
            NewToolResultError("failed to validate json for %s/%s@%s: %v",
              <<componentType.value, componentName.value, version, r.err>>),
            componentType.value, componentName.value, version)
     ELSE ServedLookup(r, ptr,
            NewToolResultText("is valid: %v, errors: %v",
                              <<r.result.valid, r.result.errors>>),
            componentType.value, componentName.value, version)

\* DeprecatedComponentFields{ComponentName, DeprecatedFields}
DeprecatedComponentFields(componentName, deprecatedFields) ==
  [ComponentName |-> componentName, DeprecatedFields |-> deprecatedFields]

\* the loop of the deprecated-fields handler over componentNames from index i
\* on: the outcomes it can have, one for each order GetDeprecatedFields can
\* list the fields in
RECURSIVE DeprecatedLoop(_, _, _, _, _, _, _)
DeprecatedLoop(c, componentType, componentNames, i, version, ptr, deprecations) ==
  IF i > Len(componentNames)
  THEN { Handled(c, NoLookup(c), ptr, NoError,
                 IF Len(deprecations) > 0
                 THEN NewToolResultText("deprecated fields: %+v",
                                        <<deprecations>>)
                 ELSE NewToolResultText("no deprecated fields found", <<>>),
                 TRUE, componentType, componentNames, version) }
  ELSE UNION {
    IF d.err # NoError
    THEN { ServedLookup(d, ptr,
             NewToolResultError("failed to validate json for %s/%s@%s: %v",
               <<componentType, componentNames[i], version, d.err>>),
             componentType, componentNames, version) }
    ELSE DeprecatedLoop(d.cache, componentType, componentNames, i + 1, version,
           PtrAfter(d.lookup, ptr),
           Append(deprecations,
                  DeprecatedComponentFields(componentNames[i], d.fields)))
    : d \in GetDeprecatedFields(c, componentType, componentNames[i], version,
                                ptr) }

\* the handler of opentelemetry-collector-component-deprecated-fields: the
\* outcomes it can have
collectorComponentDeprecatedHandler(c, request, ptr) ==
  LET componentType == Require(request, "type")
      componentNames == Require(request, "names")
      version == GetString(request, "version", latestCollectorVersion)
  IN IF componentType.err
     THEN { Unserved(c, ptr,
              NewToolResultError("type argument is required: %v", <<>>)) }
     ELSE IF componentNames.err
     THEN { Unserved(c, ptr,
              NewToolResultError("name argument is required: %v", <<>>)) }
     ELSE DeprecatedLoop(c, componentType.value, componentNames.value, 1,
                         version, ptr, <<>>)

\* versions a request names
RequestVersions == {V_0_10_0}

\* the requests a client makes of a tool: each of the parameters in keys left
\* out or given one of its values
RECURSIVE RequestsOver(_, _)
RequestsOver(values, keys) ==
  IF keys = {} THEN {NoArguments}
  ELSE LET k == CHOOSE key \in keys : TRUE
           rest == RequestsOver(values, keys \ {k})
       IN rest \cup { (k :> v) @@ r : v \in values[k], r \in rest }

WellTyped(values) == RequestsOver(values, DOMAIN values)

\* the record of a tool call
ToolCall(tool, request, r) ==
  [LookupCall("Tool", r.ctype, r.name, r.version, r.lookup)
     EXCEPT !.tool = tool, !.request = request, !.toolResult = r.result,
            !.err = r.managerErr, !.handlerErr = r.err, !.served = r.served,
            !.schema = NilSchema, !.afterError = last.toolResult.IsError]

\* a request arrives for a tool made by GetAllTools and its handler runs
HandleTool(tool, request, r) ==
  /\ GetLatestVersion(ReadSchemasDir).err = NoError
  /\ r.ptr <= MaxObjects + 1
  /\ cache' = r.cache
  /\ nextPtr' = r.ptr
  /\ last' = ToolCall(tool, request, r)
  /\ UNCHANGED callerVars

RequestTypes == {ComponentTypeReceiver, S_invalid}
RequestNames == {S_otlp, S_nonexistent}
RequestConfigs == {MalformedJson, JsonEncode(TwoViolations)}
RequestNameLists == {<<>>, <<S_otlp>>, <<S_otlp, S_nonexistent>>}

ComponentsRequests(tool) ==
  WellTyped(("type" :> RequestTypes) @@ (tool.VersionParam :> RequestVersions))

IdentityRequests ==
  WellTyped(("type" :> {ComponentTypeReceiver}) @@ ("name" :> RequestNames)
            @@ ("version" :> RequestVersions))

ValidationRequests ==
  WellTyped(("type" :> {ComponentTypeReceiver}) @@ ("name" :> RequestNames)
            @@ ("config" :> RequestConfigs) @@ ("version" :> RequestVersions))

DeprecatedRequests ==
  WellTyped(("type" :> {ComponentTypeReceiver}) @@ ("names" :> RequestNameLists)
            @@ ("version" :> RequestVersions))

CallCollectorComponentsTool ==
  \E request \in ComponentsRequests(collectorComponentsTool) :
    HandleTool(collectorComponentsTool, request,
               collectorComponentsHandler(cache, request, nextPtr))

CallGetCollectorVersionsTool ==
  HandleTool(getCollectorVersionsTool, NoArguments,
             collectorVersionsHandler(cache, NoArguments, nextPtr))

CallGetCollectorComponentsTool ==
  \E request \in ComponentsRequests(getCollectorComponentsTool) :
    HandleTool(getCollectorComponentsTool, request,
               collectorComponentsHandler(cache, request, nextPtr))

CallGetCollectorReadmeTool ==
  \E request \in IdentityRequests :
    HandleTool(getCollectorReadmeTool, request,
               collectorReadmeHandler(cache, request, nextPtr))

CallGetCollectorSchemaGetTool ==
  \E request \in IdentityRequests :
    HandleTool(getCollectorSchemaGetTool, request,
               collectorSchemaGetHandler(cache, request, nextPtr))

CallGetCollectorSchemaValidationTool ==
  \E request \in ValidationRequests :
    HandleTool(getCollectorSchemaValidationTool, request,
               collectorSchemaValidationHandler(cache, request, nextPtr))

CallGetCollectorComponentDeprecatedTool ==
  \E request \in DeprecatedRequests :
    \E r \in collectorComponentDeprecatedHandler(cache, request, nextPtr) :
      HandleTool(getCollectorComponentDeprecatedTool, request, r)

\* the server with the tools registered: requests arrive one at a time
NextTools ==
  \/ CallCollectorComponentsTool
  \/ CallGetCollectorVersionsTool
  \/ CallGetCollectorComponentsTool
  \/ CallGetCollectorReadmeTool
  \/ CallGetCollectorSchemaGetTool
  \/ CallGetCollectorSchemaValidationTool
  \/ CallGetCollectorComponentDeprecatedTool

SpecTools == Init /\ [][NextTools]_vars

----------------------------------------------------------------------------
(* Concurrent callers of GetComponentSchema, statement by statement.      *)
(* SchemaManager.cache is a plain Go map used without a lock: a lookup     *)
(* (mapaccess) and a store (mapassign) each take time, and the runtime     *)
(* stops the process when it sees a map write overlap another access.      *)

\* identities the concurrent callers ask for
ConcurrentIdentities ==
  { <<ComponentTypeReceiver, S_otlp, V_0_9_0>>,
    <<ComponentTypeReceiver, S_otlp, V_0_10_0>>,
    <<ComponentTypeReceiver, S_nonexistent, V_0_9_0>> }

KeyOf(id) == CacheKey(id[1], id[2], id[3])

\* the call starts: cacheKey is built and the map lookup of line 222 begins
Enter(th) ==
  \E id \in ConcurrentIdentities :
    /\ ~crashed
    /\ pc[th] \in {"idle", "done"}
    /\ pc' = [pc EXCEPT ![th] = "reading"]
    /\ call' = [call EXCEPT ![th] = [NoFrame EXCEPT !.id = id]]
    /\ UNCHANGED <<cache, nextPtr, last, lastWriter, crashed, schemasDir, rag>>

\* the map lookup ends: a hit returns the cached pointer, a miss goes on to load
ReadCache(th) ==
  /\ ~crashed
  /\ pc[th] = "reading"
  /\ IF KeyOf(call[th].id) \in DOMAIN cache
     THEN /\ call' = [call EXCEPT ![th].schema = cache[KeyOf(call[th].id)]]
          /\ pc' = [pc EXCEPT ![th] = "done"]
     ELSE /\ call' = [call EXCEPT ![th].missed = TRUE]
          /\ pc' = [pc EXCEPT ![th] = "load"]
  /\ UNCHANGED <<cache, nextPtr, last, lastWriter, crashed, schemasDir, rag>>

\* loadSchemaFromFile and the error return of lines 227-230
Load(th) ==
  LET id == call[th].id
      loaded == loadSchemaFromFile(id[1], id[2], id[3], nextPtr)
  IN /\ ~crashed
     /\ pc[th] = "load"
     /\ nextPtr <= MaxObjects
     /\ IF loaded.err # NoError
        THEN /\ call' = [call EXCEPT ![th].err = loaded.err]
             /\ pc' = [pc EXCEPT ![th] = "done"]
             /\ UNCHANGED nextPtr
        ELSE /\ call' = [call EXCEPT ![th].schema = loaded.schema]
             /\ pc' = [pc EXCEPT ![th] = "store"]
             /\ nextPtr' = nextPtr + 1
     /\ UNCHANGED <<cache, last, lastWriter, crashed, schemasDir, rag>>

\* sm.cache[cacheKey] = schema begins
BeginWrite(th) ==
  /\ ~crashed
  /\ pc[th] = "store"
  /\ pc' = [pc EXCEPT ![th] = "writing"]
  /\ UNCHANGED <<cache, nextPtr, last, call, lastWriter, crashed, schemasDir, rag>>

\* sm.cache[cacheKey] = schema ends, and the call returns the schema
EndWrite(th) ==
  /\ ~crashed
  /\ pc[th] = "writing"
  /\ cache' = [k \in DOMAIN cache \cup {KeyOf(call[th].id)} |->
                 IF k = KeyOf(call[th].id) THEN call[th].schema ELSE cache[k]]
  /\ lastWriter' = th
  /\ pc' = [pc EXCEPT ![th] = "done"]
  /\ UNCHANGED <<nextPtr, last, call, crashed, schemasDir, rag>>

\* a write of the map is in progress while another caller reads or writes it
MapRace ==
  \E a \in Threads, b \in Threads :
    a # b /\ pc[a] = "writing" /\ pc[b] \in {"reading", "writing"}

\* the runtime detects the overlapping map accesses and throws
\* "concurrent map writes" / "concurrent map read and map write"
Fatal ==
  /\ ~crashed
  /\ MapRace
  /\ crashed' = TRUE
  /\ UNCHANGED <<cache, nextPtr, last, pc, call, lastWriter, schemasDir, rag>>

NextConcurrent ==
  \/ \E th \in Threads : Enter(th)
  \/ \E th \in Threads : ReadCache(th)
  \/ \E th \in Threads : Load(th)
  \/ \E th \in Threads : BeginWrite(th)
  \/ \E th \in Threads : EndWrite(th)
  \/ Fatal

SpecConcurrent == Init /\ [][NextConcurrent]_vars

----------------------------------------------------------------------------
(* Properties                                                              *)

\* the identity has a schema file in the embedded tree
AssetExists(componentType, componentName, version) ==
  SchemaFilepath(componentType, componentName, version) \in DOMAIN embeddedSchemas

\* the operations that look a schema up through GetComponentSchema
LookupOps ==
  {"GetComponentSchema", "GetComponentSchemaJSON", "ValidateComponentJSON",
   "GetDeprecatedFields"}

\* the error message names string s: s is an argument of one of its frames
Identifies(err, s) ==
  \E i \in 1..Len(err) : \E j \in 1..Len(err[i].args) : err[i].args[j] = s

\* C1: a GetComponentSchema call for an identity whose schema file exists
\* succeeds, and when it directly follows a GetComponentSchema call for the
\* same identity it returns the same object and reads nothing from the store.
C1_IdempotentLookup ==
  [][ ( /\ last'.op = "GetComponentSchema"
        /\ AssetExists(last'.ctype, last'.name, last'.version) )
      => /\ last'.err = NoError
         /\ ( /\ last.op = "GetComponentSchema"
              /\ last.ctype = last'.ctype
              /\ last.name = last'.name
              /\ last.version = last'.version )
            => (last'.schema = last.schema /\ last'.reads = 0) ]_vars

\* C1 witness: a lookup of an existing identity was served from the cache with
\* the object an earlier lookup of that identity had stored.
C1_Witness ==
  /\ last.op = "GetComponentSchema"
  /\ AssetExists(last.ctype, last.name, last.version)
  /\ last.err = NoError
  /\ last.reads = 0
  /\ last.schema.Type = last.ctype
  /\ last.schema.Name = last.name
  /\ last.schema.Version = last.version

\* C2: GetComponentSchema with a category outside the five valid ones fails
\* with the invalid-component-type error and reads nothing from the store.
C2_CategoryClosure ==
  ( /\ last.op = "GetComponentSchema"
    /\ ~isValidComponentType(last.ctype) )
  => /\ last.err # NoError
     /\ last.err[1].fmt = "invalid component type: %s"
     /\ last.reads = 0

\* C3: a schema returned by a successful GetComponentSchema(c, n, v) has
\* Type = c, Name = n and Version = v.
C3_ReturnedIdentity ==
  ( /\ last.op = "GetComponentSchema"
    /\ last.err = NoError )
  => /\ last.schema.Type = last.ctype
     /\ last.schema.Name = last.name
     /\ last.schema.Version = last.version

\* C4: the outcome of GetComponentSchema for an identity (success or failure,
\* and the returned document) is the one a manager with no earlier lookups
\* gives.
C4_IndependentLookups ==
  last.op = "GetComponentSchema"
  => LET fresh == GetComponentSchema(EmptyCache, last.ctype, last.name,
                                     last.version, 1)
     IN /\ (last.err = NoError) = (fresh.err = NoError)
        /\ last.schema.Schema = fresh.schema.Schema

\* C5: every name GetComponentNames(c, v) returns makes
\* GetComponentSchema(c, n, v) succeed.
C5_ListingRoundTrip ==
  ( /\ last.op = "GetComponentNames"
    /\ last.err = NoError )
  => \A i \in 1..Len(last.names) :
       GetComponentSchema(cache, last.ctype, last.names[i], last.version,
                          nextPtr).err = NoError

\* C5 witness: GetComponentNames returned a list of names.
C5_Witness ==
  /\ last.op = "GetComponentNames"
  /\ last.err = NoError
  /\ Len(last.names) >= 1
  /\ cache # EmptyCache

\* C6: a call whose schema lookup fails leaves the cache (and the allocator)
\* exactly as it was before the call.
C6_FailedLookupKeepsCache ==
  [][ ( /\ last'.op \in LookupOps
        /\ last'.lookupErr # NoError )
      => (cache' = cache /\ nextPtr' = nextPtr) ]_vars

\* C6 witness: a lookup through validation failed on a manager whose cache
\* already held entries.
C6_Witness ==
  /\ last.op = "ValidateComponentJSON"
  /\ last.lookupErr # NoError
  /\ Cardinality(DOMAIN cache) >= 2

\* C7: for an identity with no schema file, each of the four lookup
\* operations returns an error that names the component type and name, and
\* returns no document, JSON, validation result or field list.
C7_NotFoundError ==
  ( /\ last.op \in LookupOps
    /\ ~AssetExists(last.ctype, last.name, last.version) )
  => /\ last.err # NoError
     /\ Identifies(last.err, last.ctype)
     /\ Identifies(last.err, last.name)
     /\ last.schema = NilSchema
     /\ last.json = NoBytes
     /\ last.result = NoResult
     /\ last.fields = <<>>

\* C8: in sequential use the set of cached keys only grows and every key
\* keeps the entry first stored for it.
C8_CacheEntriesStable ==
  [][ \A k \in DOMAIN cache : k \in DOMAIN cache' /\ cache'[k] = cache[k] ]_vars

\* C8 witness: with two or more entries cached, a later lookup hit the cache.
C8_Witness ==
  /\ Cardinality(DOMAIN cache) >= 2
  /\ last.op \in LookupOps
  /\ last.lookupErr = NoError
  /\ last.reads = 0

\* C9: no read or write of the cache map by one caller overlaps a write of
\* the cache map by another caller.
C9_NoOverlappingMapAccess == ~MapRace

\* C10: when two callers both miss the cache for the same existing identity,
\* the process keeps running, and once both have returned they hold
\* structurally equal documents and the cache holds for that key the object
\* of the caller that wrote last.
C10_ConcurrentFirstLookup ==
  \A a \in Threads, b \in Threads :
    ( /\ a # b
      /\ call[a].missed /\ call[b].missed
      /\ call[a].id = call[b].id
      /\ AssetExists(call[a].id[1], call[a].id[2], call[a].id[3]) )
    => /\ ~crashed
       /\ (pc[a] = "done" /\ pc[b] = "done")
          => /\ call[a].err = NoError /\ call[b].err = NoError
             /\ call[a].schema.Schema = call[b].schema.Schema
             /\ KeyOf(call[a].id) \in DOMAIN cache
             /\ cache[KeyOf(call[a].id)] = call[lastWriter].schema

----------------------------------------------------------------------------
(* Validation                                                              *)

ValidateOps == {"ValidateComponentJSON", "ValidateComponentYAML"}

\* the schema document the last call validated against
ValidatedDoc == cache[CacheKey(last.ctype, last.name, last.version)].Schema

\* the JSON text ValidateComponentYAML hands on for a YAML input
NormalizedJson(yamlData) == jsonMarshal(yamlUnmarshal(yamlData).value).bytes

\* C11: for every identity and every configuration that has both encodings,
\* ValidateComponentYAML on the YAML text returns what ValidateComponentJSON
\* returns on the JSON text of the same configuration from the same manager
\* state: the same error or the same valid flag and set of errors, and it
\* leaves the same cache.
C11_YamlJsonEquivalence ==
  [][ last'.op = "ValidateComponentYAML"
      => \A cfg \in Configs :
           last'.input = YamlEncode(cfg)
           => LET j == ValidateComponentJSON(cache, last'.ctype, last'.name,
                         last'.version, JsonEncode(cfg), nextPtr)
              IN /\ last'.err = j.err
                 /\ last'.result = j.result
                 /\ cache' = j.cache ]_vars

\* C11 witness: a YAML configuration with a decimal number was validated and
\* found valid, and the JSON text it was normalized to is another text than the
\* JSON text of that configuration.
C11_Witness ==
  /\ last.op = "ValidateComponentYAML"
  /\ last.input = YamlEncode(ValidTailSampling)
  /\ last.name = S_tail_sampling
  /\ last.err = NoError
  /\ last.result.valid
  /\ NormalizedJson(last.input) # JsonEncode(ValidTailSampling)

IndependentViolations ==
  { << <<ComponentTypeProcessor, S_tail_sampling, V_0_9_0>>, TwoViolations,
       {"decision_wait", "num_traces"} >>,
    << <<ComponentTypeProcessor, S_tail_sampling, V_0_9_0>>, NestedViolation,
       {"num_traces"} >>,
    << <<ComponentTypeReceiver, S_otlp, V_0_9_0>>, NestedViolation,
       {"protocols.grpc"} >>,
    << <<ComponentTypeReceiver, S_otlp, V_0_10_0>>, ConstrainedMember,
       {"headers.a"} >> }

\* C13: ValidateComponentJSON on a configuration with type mismatches at N
\* different fields returns a result with an error entry for each of the N
\* fields, so with at least N entries.
C13_ValidationExhaustive ==
  \A v \in IndependentViolations :
    ( /\ last.op = "ValidateComponentJSON"
      /\ <<last.ctype, last.name, last.version>> = v[1]
      /\ last.input = JsonEncode(v[2]) )
    => /\ last.err = NoError
       /\ last.result.present
       /\ v[3] \subseteq { e.field : e \in last.result.errors }
       /\ Cardinality(last.result.errors) >= Cardinality(v[3])

\* C13 witness: a configuration with two mismatching fields was validated and
\* the result has two errors.
C13_Witness ==
  /\ last.op = "ValidateComponentJSON"
  /\ last.name = S_tail_sampling
  /\ last.input = JsonEncode(TwoViolations)
  /\ Cardinality(last.result.errors) = 2

\* whether a schema document requires a member of the top-level object
DeclaresRequired(doc) == "required" \in DOMAIN doc /\ doc.required # {}

\* C14: ValidateComponentJSON on {} for an identity whose schema requires no
\* field returns a result that is valid and has no errors.
C14_EmptyObjectAccepted ==
  ( /\ last.op = "ValidateComponentJSON"
    /\ last.input = JsonEncode(EmptyConfig)
    /\ last.lookupErr = NoError
    /\ ~DeclaresRequired(ValidatedDoc) )
  => /\ last.err = NoError
     /\ last.result = [valid |-> TRUE, errors |-> {}, present |-> TRUE]

\* C14 witness: {} was validated against a schema that declares properties
\* and requires none of them.
C14_Witness ==
  /\ last.op = "ValidateComponentJSON"
  /\ last.input = JsonEncode(EmptyConfig)
  /\ last.name = S_tail_sampling
  /\ last.result.valid

\* configuration ext is configuration base with more members, none of them
\* declared by the top node of doc, and doc does not constrain such members
AddsUndeclaredKeys(base, ext, doc) ==
  /\ base.kind = "map"
  /\ ext.kind = "map"
  /\ DOMAIN base.fields \subseteq DOMAIN ext.fields
  /\ DOMAIN base.fields # DOMAIN ext.fields
  /\ \A k \in DOMAIN base.fields : ext.fields[k] = base.fields[k]
  /\ "properties" \in DOMAIN doc
  /\ (DOMAIN ext.fields \ DOMAIN base.fields) \cap DOMAIN doc.properties = {}
  /\ "additionalProperties" \notin DOMAIN doc

\* C15: a configuration that adds keys the schema does not declare to another
\* configuration gets the result of that other configuration: the same valid
\* flag and the same errors, so none for the added keys.
C15_UnknownKeysPermitted ==
  ( /\ last.op = "ValidateComponentJSON"
    /\ last.lookupErr = NoError )
  => \A base \in Configs, ext \in Configs :
       ( /\ last.input = JsonEncode(ext)
         /\ AddsUndeclaredKeys(base, ext, ValidatedDoc) )
       => LET b == gojsonschemaValidate(ValidatedDoc, JsonEncode(base))
          IN /\ last.err = NoError
             /\ last.result.present
             /\ last.result.valid = b.valid
             /\ last.result.errors = b.errors

\* C15 witness: a valid configuration with one more key, which the schema does
\* not declare, was validated and found valid.
C15_Witness ==
  /\ last.op = "ValidateComponentJSON"
  /\ last.name = S_tail_sampling
  /\ last.input = JsonEncode(WithUnknownKey)
  /\ AddsUndeclaredKeys(ValidTailSampling, WithUnknownKey, ValidatedDoc)
  /\ last.result.valid

\* well-formed configurations that violate the schema of an existing identity
ViolatingConfigs ==
  { <<v[1], v[2]>> : v \in IndependentViolations }
  \cup { <<id, CStr>> : id \in { i \in ValidatedIdentities :
                                   AssetExists(i[1], i[2], i[3]) } }
  \cup { << <<ComponentTypeReceiver, S_otlp, V_0_10_0>>, EmptyConfig >> }

\* C16: ValidateComponentJSON and ValidateComponentYAML on a well-formed
\* configuration that violates the schema of an existing identity return no
\* error and a result that is not valid and has errors; every result returned
\* comes without an error and is valid exactly when it has no errors, and
\* every error comes without a result.
C16_FailureIsAResult ==
  last.op \in ValidateOps
  => /\ last.result.present
        => /\ last.err = NoError
           /\ last.result.valid <=> (last.result.errors = {})
     /\ last.err # NoError => last.result = NoResult
     /\ \A v \in ViolatingConfigs :
          ( /\ <<last.ctype, last.name, last.version>> = v[1]
            /\ last.input \in {JsonEncode(v[2]), YamlEncode(v[2])} )
          => /\ last.err = NoError
             /\ last.result.present
             /\ ~last.result.valid
             /\ last.result.errors # {}

\* C16 witness: a YAML configuration with two mismatching fields was validated
\* and came back as a result that is not valid.
C16_Witness ==
  /\ last.op = "ValidateComponentYAML"
  /\ last.name = S_tail_sampling
  /\ last.input = YamlEncode(TwoViolations)
  /\ last.err = NoError
  /\ last.result.present
  /\ ~last.result.valid

----------------------------------------------------------------------------
(* Deprecated fields                                                       *)

\* the property paths of a schema document: the sequences of property names
\* that lead from the root through nested properties maps to a node
RECURSIVE PropertyPaths(_)
PropertyPaths(node) ==
  IF "properties" \in DOMAIN node
  THEN UNION { {<<k>>} \cup { <<k>> \o q : q \in PropertyPaths(node.properties[k]) } :
               k \in DOMAIN node.properties }
  ELSE {}

\* the node a property path leads to
RECURSIVE NodeAt(_, _)
NodeAt(node, path) ==
  IF path = <<>> THEN node
  ELSE NodeAt(node.properties[Head(path)], Tail(path))

\* the names of a path joined with "."
RECURSIVE JoinDots(_)
JoinDots(path) ==
  IF Len(path) = 1 THEN path[1]
  ELSE path[1] \o "." \o JoinDots(Tail(path))

\* the paths of the nodes flagged deprecated
DeprecatedPaths(doc) ==
  { q \in PropertyPaths(doc) :
      /\ "deprecated" \in DOMAIN NodeAt(doc, q)
      /\ NodeAt(doc, q).deprecated = TRUE }

\* the entry the claim describes for the node at a path
ExpectedEntry(doc, path) ==
  LET node == NodeAt(doc, path)
  IN [Name |-> JoinDots(path),
      Description |-> IF "description" \in DOMAIN node
                      THEN node.description ELSE "",
      Type |-> IF "type" \in DOMAIN node THEN node.type ELSE ""]

\* C17: a successful GetDeprecatedFields returns one entry for each property
\* node flagged deprecated that nested properties maps lead to, and no other
\* entry; the entry has the dot-joined path as its name, the node's
\* description or "" and the node's declared type or "".
C17_DeprecationPaths ==
  ( /\ last.op = "GetDeprecatedFields"
    /\ last.err = NoError )
  => /\ { last.fields[i] : i \in 1..Len(last.fields) }
          = { ExpectedEntry(ValidatedDoc, q) : q \in DeprecatedPaths(ValidatedDoc) }
     /\ Len(last.fields) = Cardinality(DeprecatedPaths(ValidatedDoc))

\* C17 witness: the scan returned an entry named by a dotted path of three
\* names, next to an entry with neither description nor type.
C17_Witness ==
  /\ last.op = "GetDeprecatedFields"
  /\ last.err = NoError
  /\ \E i \in 1..Len(last.fields) :
       last.fields[i] = [Name |-> "protocols.grpc.tls", Description |-> "",
                         Type |-> "string"]
  /\ \E i \in 1..Len(last.fields) :
       last.fields[i] = [Name |-> "protocols.http", Description |-> "",
                         Type |-> ""]
  /\ \E i \in 1..Len(last.fields) :
       last.fields[i] = [Name |-> "protocols.grpc", Description |-> "old",
                         Type |-> "object"]

\* C18: two GetDeprecatedFields calls for one identity, one directly after the
\* other, return the deprecated fields in the same order.
C18_StableOrder ==
  [][ ( /\ last.op = "GetDeprecatedFields"
        /\ last'.op = "GetDeprecatedFields"
        /\ last.err = NoError
        /\ last'.err = NoError
        /\ last'.ctype = last.ctype
        /\ last'.name = last.name
        /\ last'.version = last.version )
      => last'.fields = last.fields ]_vars

----------------------------------------------------------------------------
(* Versions                                                                *)

\* the elements of a sequence
Range(seq) == { seq[i] : i \in 1..Len(seq) }

\* the names of the directories directly under "schemas" that contain a "."
VersionNames ==
  { entry.Name : entry \in { x \in Range(schemasDir) :
                               x.IsDir /\ ContainsChar(x.Name, ".") } }

\* C19: GetLatestVersion fails exactly when GetAllVersions fails, and
\* otherwise returns one of the names GetAllVersions returns that no other of
\* them exceeds in string order: "0.9.0" when the versions are "0.9.0" and
\* "0.10.0".
C19_LatestIsStringMaximum ==
  last.op = "GetLatestVersion"
  => LET all == GetAllVersions(ReadSchemasDir)
     IN /\ (last.err = NoError) <=> (all.err = NoError)
        /\ last.err # NoError
           => /\ last.latest = <<>>
              /\ last.err = Errorf("no versions found in schemas directory", <<>>)
        /\ last.err = NoError
           => /\ last.latest \in Range(all.versions)
              /\ \A v \in Range(all.versions) :
                   v = last.latest \/ StrLess(v, last.latest)
        /\ Range(all.versions) = {V_0_9_0, V_0_10_0} => last.latest = V_0_9_0

\* C19 witness: with directories "0.9.0" and "0.10.0" and no other version,
\* next to a directory without a ".", GetLatestVersion returned "0.9.0".
C19_Witness ==
  /\ last.op = "GetLatestVersion"
  /\ VersionNames = {V_0_9_0, V_0_10_0}
  /\ [Name |-> S_latest, IsDir |-> TRUE] \in Range(schemasDir)
  /\ last.latest = V_0_9_0

\* C20: GetAllVersions returns each name of a directory directly under
\* "schemas" that contains a "." once and nothing else, so no name of a plain
\* file or of a directory without a "." and no empty name; when there is no
\* such directory it returns the no-versions error and no list.
C20_AllVersionsExact ==
  last.op = "GetAllVersions"
  => IF VersionNames = {}
     THEN /\ last.err = Errorf("no versions found in schemas directory", <<>>)
          /\ last.versions = <<>>
     ELSE /\ last.err = NoError
          /\ Range(last.versions) = VersionNames
          /\ Len(last.versions) = Cardinality(VersionNames)
          /\ \A v \in Range(last.versions) : v # <<>> /\ ContainsChar(v, ".")

\* C20 witness: GetAllVersions returned two versions from a directory that
\* also holds a directory without a "." and a plain file with one.
C20_Witness ==
  /\ last.op = "GetAllVersions"
  /\ last.err = NoError
  /\ Len(last.versions) = 2
  /\ [Name |-> S_latest, IsDir |-> TRUE] \in Range(schemasDir)
  /\ [Name |-> S_notes_md, IsDir |-> FALSE] \in Range(schemasDir)

----------------------------------------------------------------------------
(* Listings                                                                *)

\* the regular files directly in the directory of a version
FilesOf(version) ==
  { entry.Name : entry \in { x \in Range(ReadDir(VersionDir(version)).entries) :
                               ~x.IsDir } }

\* C21: ListAvailableComponents fails only when the version directory is
\* missing; every key of the map it returns is one of the five categories and
\* has no "_", every name listed under a key is the rest of the name of a
\* schema file <key>_<name>.yaml of that version, and no file is listed
\* twice.
C21_ListingCategoriesClosed ==
  last.op = "ListAvailableComponents"
  => /\ (last.err = NoError) <=> (VersionDir(last.version) \in embeddedDirs)
     /\ last.err # NoError => last.components = NoComponents
     /\ \A t \in DOMAIN last.components :
          /\ isValidComponentType(t)
          /\ ~ContainsChar(t, "_")
          /\ last.components[t] # <<>>
          /\ \A n \in Range(last.components[t]) :
               (t \o S_us \o n \o S_yaml) \in FilesOf(last.version)
          /\ Cardinality(Range(last.components[t])) = Len(last.components[t])

\* C21 witness: a version that holds a file without "_", a file with another
\* prefix than a category and a directory named like a schema file was
\* listed, and the listing has the receivers and exporters of that version.
C21_Witness ==
  /\ last.op = "ListAvailableComponents"
  /\ last.err = NoError
  /\ (S_notes \o S_yaml) \in FilesOf(last.version)
  /\ (S_invalid \o S_us \o S_otlp \o S_yaml) \in FilesOf(last.version)
  /\ Dir_exporter_old \in embeddedDirs
  /\ DOMAIN last.components = {ComponentTypeReceiver, ComponentTypeExporter}
  /\ last.components[ComponentTypeExporter] = <<S_debug>>

\* the names of the schema files of a category in a version: what follows
\* <category>_ in the name of a file <category>_<name>.yaml, when not empty
SchemaNamesOf(componentType, version) ==
  { n \in { SubSeq(f, Len(componentType) + 2, Len(f) - Len(S_yaml)) :
              f \in { g \in FilesOf(version) :
                        /\ HasPrefix(g, componentType \o S_us)
                        /\ HasSuffix(g, S_yaml)
                        /\ Len(g) >= Len(componentType) + 1 + Len(S_yaml) } } :
      n # <<>> }

\* C22: GetComponentNames returns the invalid-type error for a category
\* outside the five, whatever the version; for a valid category it returns
\* the read error when the version directory is missing and the
\* no-components error when the version has no schema file of the category;
\* an error comes with no list, and a list returned without error is not
\* empty and holds no empty name.
C22_ComponentNamesErrors ==
  last.op = "GetComponentNames"
  => /\ ~isValidComponentType(last.ctype)
        => last.err = Errorf("invalid component type: %s", <<last.ctype>>)
     /\ ( /\ isValidComponentType(last.ctype)
          /\ VersionDir(last.version) \notin embeddedDirs )
        => last.err =
             Errorf("failed to read schema directory for version %s: %w",
                    <<last.version>>)
     /\ ( /\ isValidComponentType(last.ctype)
          /\ VersionDir(last.version) \in embeddedDirs
          /\ SchemaNamesOf(last.ctype, last.version) = {} )
        => last.err = Errorf("no %s components found for version %s",
                             <<last.ctype, last.version>>)
     /\ last.err # NoError => last.names = <<>>
     /\ last.err = NoError
        => /\ last.names # <<>>
           /\ \A n \in Range(last.names) : n # <<>>

\* C22 witness: a valid category was asked for in a version that exists and
\* has schema files, none of them of that category, and the call failed.
C22_Witness ==
  /\ last.op = "GetComponentNames"
  /\ last.ctype = ComponentTypeProcessor
  /\ last.version = V_0_10_0
  /\ FilesOf(last.version) # {}
  /\ last.err # NoError
  /\ last.names = <<>>

----------------------------------------------------------------------------
(* Tools                                                                   *)

\* C23: a tool request without a value for the version parameter the tool
\* declares is served with the latest version, and a request with a value for
\* it is served with that value.
C23_DefaultVersion ==
  ( /\ last.op = "Tool"
    /\ last.tool.VersionParam # ""
    /\ last.served )
  => last.version = IF last.tool.VersionParam \in DOMAIN last.request
                    THEN last.request[last.tool.VersionParam]
                    ELSE latestCollectorVersion

\* a tool call failed: a required argument was missing or the Manager returned
\* an error to the handler
Failed(l) ==
  \/ \E k \in l.tool.Required : k \notin DOMAIN l.request
  \/ l.err # NoError

\* C24: a handler returns no Go error and always a result; the result is an
\* error result exactly when a required argument is missing or the Manager
\* operation failed; the server does not stop and every entry the cache held
\* before the request is still there after it.
C24_FailuresAreResults ==
  [][ last'.op = "Tool"
      => /\ last'.handlerErr = NoError
         /\ last'.toolResult # NoToolResult
         /\ last'.toolResult.IsError <=> Failed(last')
         /\ ~crashed'
         /\ \A k \in DOMAIN cache :
              k \in DOMAIN cache' /\ cache'[k] = cache[k] ]_vars

\* C24 witness: a request is served from a cache that holds a schema right
\* after a request whose Manager operation failed with an error result.
C24_Witness ==
  /\ last.op = "Tool"
  /\ last.afterError
  /\ last.served
  /\ ~last.toolResult.IsError
  /\ cache # EmptyCache

----------------------------------------------------------------------------
(* The reach of the deprecation scan                                       *)

\* the nodes of a document below an items member: the items node itself and
\* every node its properties and items lead to
RECURSIVE NodesOf(_)
NodesOf(node) ==
  {node}
  \cup (IF "properties" \in DOMAIN node
        THEN UNION { NodesOf(node.properties[k]) : k \in DOMAIN node.properties }
        ELSE {})
  \cup (IF "items" \in DOMAIN node THEN NodesOf(node.items) ELSE {})

RECURSIVE NodesBelowItems(_)
NodesBelowItems(node) ==
  (IF "items" \in DOMAIN node THEN NodesOf(node.items) ELSE {})
  \cup (IF "properties" \in DOMAIN node
        THEN UNION { NodesBelowItems(node.properties[k]) :
                     k \in DOMAIN node.properties }
        ELSE {})

\* the nodes flagged deprecated that only an items member leads to
DeprecatedBelowItems(doc) ==
  { n \in NodesBelowItems(doc) :
      /\ "deprecated" \in DOMAIN n
      /\ n.deprecated = TRUE
      /\ \A q \in PropertyPaths(doc) : NodeAt(doc, q) # n }

\* C25: a successful GetDeprecatedFields returns no entry for a node flagged
\* deprecated that is reachable from the root only through the items of an
\* array node.
C25_ItemsNotTraversed ==
  ( /\ last.op = "GetDeprecatedFields"
    /\ last.err = NoError )
  => \A i \in 1..Len(last.fields) :
       \A n \in DeprecatedBelowItems(ValidatedDoc) :
         last.fields[i] # DeprecatedField(last.fields[i].Name, n)

\* C25 witness: the scan succeeded on a document that has a deprecated field in
\* the items of an array, and returned the deprecated field outside the array.
C25_Witness ==
  /\ last.op = "GetDeprecatedFields"
  /\ last.err = NoError
  /\ DeprecatedBelowItems(ValidatedDoc) # {}
  /\ \E i \in 1..Len(last.fields) : last.fields[i].Name = "num_traces"

\* the property paths on which every node above the last one declares the
\* type object
ObjectPaths(doc) ==
  { q \in PropertyPaths(doc) :
      \A j \in 1..(Len(q) - 1) :
        LET above == NodeAt(doc, SubSeq(q, 1, j))
        IN "type" \in DOMAIN above /\ above.type = "object" }

\* C26: a successful GetDeprecatedFields returns entries only for nodes that
\* nested properties maps of nodes of declared type object lead to.
C26_ObjectKindOnly ==
  ( /\ last.op = "GetDeprecatedFields"
    /\ last.err = NoError )
  => \A i \in 1..Len(last.fields) :
       last.fields[i].Name \in { JoinDots(q) : q \in ObjectPaths(ValidatedDoc) }

----------------------------------------------------------------------------
(* The documentation index is built before it is queried                   *)

\* C27: a query of the documentation index on a manager whose one run of
\* ragInit failed returns an initialization error and executes no query.
C27_FailedInitStaysFailed ==
  ( /\ last.op \in {"QueryDocumentation", "QueryDocumentationWithFilters"}
    /\ rag.initErr # NoError )
  => /\ last.err # NoError
     /\ Head(last.err).fmt = "failed to initialize RAG database: %w"
     /\ ~last.queried

----------------------------------------------------------------------------
(* The two listing operations                                              *)

\* C28: GetComponentNames succeeds for a valid component type exactly when
\* ListAvailableComponents of the same version has a non-empty list for that
\* type, and then both hold the same names in the same order.
C28_ListingsAgree ==
  ( /\ last.op = "GetComponentNames"
    /\ isValidComponentType(last.ctype) )
  => LET listed == ListAvailableComponents(last.version)
         present == /\ listed.err = NoError
                    /\ last.ctype \in DOMAIN listed.components
                    /\ listed.components[last.ctype] # <<>>
     IN /\ (last.err = NoError) <=> present
        /\ last.err = NoError => last.names = listed.components[last.ctype]

----------------------------------------------------------------------------
(* What changes the cache                                                  *)

\* the operations that read the embedded tree without loading a schema
ListingOps ==
  {"ListAvailableComponents", "GetComponentNames", "GetComponentReadme",
   "GetChangelog", "GetLatestVersion", "GetAllVersions"}

\* C29: the listing, readme, changelog and version operations and a
\* ValidateComponentYAML call whose input does not parse leave the cache as it
\* was; an operation that looks a schema up keeps every entry, adds no entry
\* but the one of the requested identity, and adds none when the lookup fails.
C29_CacheFrame ==
  [][ /\ last'.op \in ListingOps => cache' = cache
      /\ ( /\ last'.op = "ValidateComponentYAML"
           /\ ~last'.input.wellFormed ) => cache' = cache
      /\ last'.op \in LookupOps \cup {"ValidateComponentYAML"}
         => /\ \A k \in DOMAIN cache :
                 k \in DOMAIN cache' /\ cache'[k] = cache[k]
            /\ DOMAIN cache' \subseteq
                 DOMAIN cache
                 \cup {CacheKey(last'.ctype, last'.name, last'.version)}
            /\ last'.lookupErr # NoError => cache' = cache ]_vars

\* C29 witness: a ValidateComponentYAML call whose input does not parse
\* returned on a manager that holds schemas, none of them the one the call
\* named.
C29_Witness ==
  /\ last.op = "ValidateComponentYAML"
  /\ ~last.input.wellFormed
  /\ cache # EmptyCache
  /\ AssetExists(last.ctype, last.name, last.version)
  /\ CacheKey(last.ctype, last.name, last.version) \notin DOMAIN cache

----------------------------------------------------------------------------
(* The answer of the deprecated-fields tool                                *)

\* the schema file of a component has a property flagged deprecated
HasDeprecatedField(componentType, componentName, version) ==
  /\ AssetExists(componentType, componentName, version)
  /\ DeprecatedPaths(
       embeddedSchemas[SchemaFilepath(componentType, componentName,
                                      version)].doc) # {}

\* C30: when every lookup succeeds the deprecated-fields tool answers with a
\* "deprecated fields" listing if one of the requested components has a
\* deprecated field and with "no deprecated fields found" if none has; when a
\* lookup fails it answers with an error result and no listing.
C30_DeprecatedAnswer ==
  ( /\ last.op = "Tool"
    /\ last.tool = getCollectorComponentDeprecatedTool
    /\ last.served )
  => LET some == \E i \in 1..Len(last.name) :
                   HasDeprecatedField(last.ctype, last.name[i], last.version)
     IN IF last.err # NoError
        THEN /\ last.toolResult.IsError
             /\ last.toolResult.format
                  = "failed to validate json for %s/%s@%s: %v"
        ELSE /\ ~last.toolResult.IsError
             /\ last.toolResult.format
                  = IF some THEN "deprecated fields: %+v"
                    ELSE "no deprecated fields found"

====
